---- MODULE Spec2Model ----
(***************************************************************************)
(* Token lifecycle of kognic-auth: the token provider                      *)
(* (RequestsAuthSession), the bearer-auth interceptor (KognicBearerAuth),  *)
(* the response check of create_session and the validity rule of the      *)
(* token caches.                                                           *)
(*                                                                         *)
(* Time is in seconds.  A token is a record [id, has, expires_at]: id is    *)
(* the serial number of the network fetch that produced it (0 for a token  *)
(* that an earlier process left in a cache) and stands for access_token;   *)
(* has tells whether the dict carries "expires_at".                        *)
(***************************************************************************)
EXTENDS Integers, Sequences, FiniteSets, TLC

VARIABLES
    token,        \* oauth_session.token of the provider (NoToken = falsy)
    lockOwner,    \* holder of RequestsAuthSession._lock
    now,          \* time.time()
    fetches,      \* number of successful token-endpoint exchanges so far
    cache,        \* keyring entry for this (auth_host, client_id)
    used,         \* an operation has begun on the provider
    invalidated,  \* <<id, thread>>: the token id was held when thread's invalidate_token() ran
    pc, op, ret,  \* per thread: position, running operation, return address
    got,          \* per thread: what the last token acquisition returned
    snap,         \* per thread: the ids in `invalidated` when its acquisition began
    prevInval,    \* per thread: `fetches` at its own last invalidate_token(), or -1
    callInval,    \* per thread: prevInval at the start of the running acquisition
    req,          \* per thread: locals of the request being sent
    vNow, vTok, vRes, vBackend,  \* the cache validity check and its input
    provider_pool,       \* _provider_pool: key -> provider (0: no entry)
    provider_pool_lock,  \* holder of _provider_pool_lock
    prov,                \* the RequestsAuthSession objects, by identity
    cl,                  \* the BaseApiClient objects and the thread using each
    garbage,             \* providers referenced by unreachable, uncollected sessions
    fileDoc,             \* the text of the cache file
    keyringStore,        \* the keyring's passwords of SERVICE_NAME, by key
    keyringState,        \* the keyring of this machine: usable, failing or absent
    cacheBackend,        \* the cache the processes use
    cacheMode,           \* the mode make_cache was called with
    cop,                 \* per process: the cache operation it runs
    hist,                \* per key: the last completed save and whether it is in place
    nops,                \* number of cache operations begun so far
    cmd,                 \* the CLI command that is running and its locals
    nruns,               \* number of CLI commands started so far
    rf,                  \* the _FixedSession.refresh_token call that is running
    sx,                  \* a BaseApiClient and the threads that read its session
    ax,                  \* a request of BaseAsyncApiClient and its attempts
    ky                   \* the identities whose cache keys are compared

provVars == <<token, lockOwner, now, fetches, cache, used, invalidated>>
thrVars  == <<pc, op, ret, got, snap, prevInval, callInval, req>>
validVars == <<vNow, vTok, vRes, vBackend>>
poolVars == <<provider_pool, provider_pool_lock, prov, cl, garbage>>
storeVars == <<fileDoc, keyringStore, keyringState, cacheBackend, cacheMode, cop,
               hist, nops>>
cliVars == <<cmd, nruns>>
miscVars == <<rf, sx, ax, ky>>
auxVars == <<validVars, poolVars, storeVars, cliVars, miscVars>>
vars == <<provVars, thrVars, validVars, poolVars, storeVars, cliVars, miscVars>>

-----------------------------------------------------------------------------
(* Bounds and inputs *)

MaxFetches == 3
MaxTicks == 2
MaxNow == 3

Threads == {"A", "B"}
ExpiresIn == {45, 3600}
LongLived == {3600}
Statuses == {200, 401, 403, 503}

EXPIRY_MARGIN_SECONDS == 30

NoToken == [id |-> -1, has |-> FALSE, expires_at |-> -1]
NoOwner == "none"
NoGot == [tok |-> NoToken, at |-> -1]
NoPrep == [url |-> "", auth |-> <<>>, hooks |-> <<>>]
NoReq == [tx |-> 0, first |-> 0, second |-> 0, last |-> 0, orig |-> NoPrep,
          prep |-> NoPrep, sent |-> <<>>, result |-> 0, history |-> <<>>,
          log |-> <<>>, outcome |-> "none"]

CachedTokens == {[id |-> 0, has |-> TRUE, expires_at |-> e] : e \in ExpiresIn}

-----------------------------------------------------------------------------
(* The validity rule of the token caches *)

\* The margin counted in the validity.
is_valid_inclusive(tok, t) ==
    IF ~tok.has THEN FALSE
    ELSE t <= (tok.expires_at - EXPIRY_MARGIN_SECONDS)

\* is_valid(token) of the cache backends, at time t.
is_valid(tok, t) ==
    IF ~tok.has THEN FALSE
    ELSE t < (tok.expires_at - EXPIRY_MARGIN_SECONDS)

\* FileTokenCache.load and KeyringTokenCache.load (with a usable keyring) on a
\* store whose entry for the key is `entry` (NoToken: no entry).
cache_load(entry, t) ==
    IF entry = NoToken THEN NoToken
    ELSE IF ~is_valid(entry, t) THEN NoToken
    ELSE entry

\* load_cached_token of the CLI (with a usable keyring), likewise.
load_cached_token(entry, t) ==
    IF entry = NoToken THEN NoToken
    ELSE IF ~entry.has THEN NoToken
    ELSE IF t >= (entry.expires_at - EXPIRY_MARGIN_SECONDS) THEN NoToken
    ELSE entry

-----------------------------------------------------------------------------
(* The token provider: RequestsAuthSession *)

InvalidatedIds(inv) == {p[1] : p \in inv}

\* A fetch on the first use only.
NeedsFetchOnlyFirst(tok) == tok = NoToken /\ fetches = 0

\* `if not self.token`: the held token is tested for truthiness only.
NeedsFetch(tok) == tok = NoToken

\* A lock that excludes nobody.
CanAcquireAlways(owner, t) == TRUE

\* `with self._lock`: the lock is free (no thread of the model re-enters it).
CanAcquire(owner, t) == owner = NoOwner

\* A cached token injected into a provider whatever its history.
ProviderFreshAlways == TRUE

\* _create_authenticated_session injects the cached token into the provider it
\* has just constructed, before anything else can use that provider.
ProviderFresh == ~used

\* The start of a token acquisition (ensure_token(), the `session` access) by t,
\* returning to r.
BeginAcquire(t, r) ==
    /\ pc' = [pc EXCEPT ![t] = "s_check"]
    /\ ret' = [ret EXCEPT ![t] = r]
    /\ got' = [got EXCEPT ![t] = NoGot]
    /\ snap' = [snap EXCEPT ![t] = InvalidatedIds(invalidated)]
    /\ callInval' = [callInval EXCEPT ![t] = prevInval[t]]
    /\ prevInval' = [prevInval EXCEPT ![t] = -1]
    /\ used' = TRUE

\* `return self.oauth_session.session`: the caller obtains the token tk.
Return(t, tk) ==
    /\ pc' = [pc EXCEPT ![t] = ret[t]]
    /\ got' = [got EXCEPT ![t] = [tok |-> tk, at |-> now]]

\* invalidate_token(): clears the in-memory token and, optionally, the
\* persisted cache entry.
invalidate_token(t, clear) ==
    /\ token' = NoToken
    /\ cache' = IF clear THEN NoToken ELSE cache
    /\ invalidated' = IF token = NoToken THEN invalidated
                      ELSE invalidated \cup {<<token.id, t>>}

\* The clock advances, by the length of the margin.
Tick ==
    /\ now + EXPIRY_MARGIN_SECONDS <= MaxTicks * EXPIRY_MARGIN_SECONDS
    /\ now' = now + EXPIRY_MARGIN_SECONDS
    /\ UNCHANGED <<token, lockOwner, fetches, cache, used, invalidated>>
    /\ UNCHANGED <<thrVars, auxVars>>

\* _create_authenticated_session: `auth_session.oauth_session.token = cached`.
CliInject ==
    /\ ProviderFresh
    /\ token = NoToken
    /\ load_cached_token(cache, now) # NoToken
    /\ token' = load_cached_token(cache, now)
    /\ UNCHANGED <<lockOwner, now, fetches, cache, used, invalidated>>
    /\ UNCHANGED <<thrVars, auxVars>>

\* A caller asks the provider for a token.
StartEnsure(t) ==
    /\ pc[t] = "idle"
    /\ op' = [op EXCEPT ![t] = "ensure"]
    /\ BeginAcquire(t, "done")
    /\ UNCHANGED <<token, lockOwner, now, fetches, cache, invalidated, req>>
    /\ UNCHANGED auxVars

\* session, `if not self.token`, with a token held: the session is returned.
SessionHit(t) ==
    /\ pc[t] = "s_check"
    /\ ~NeedsFetch(token)
    /\ Return(t, token)
    /\ UNCHANGED <<provVars, op, ret, snap, prevInval, callInval, req>>
    /\ UNCHANGED auxVars

\* session, `if not self.token`, with no token held: on to `with self._lock`.
SessionMiss(t) ==
    /\ pc[t] = "s_check"
    /\ NeedsFetch(token)
    /\ pc' = [pc EXCEPT ![t] = "s_lock"]
    /\ UNCHANGED <<provVars, op, ret, got, snap, prevInval, callInval, req>>
    /\ UNCHANGED auxVars

\* `with self._lock:` acquired; fetch_access_token sends its request.
SessionLock(t) ==
    /\ pc[t] = "s_lock"
    /\ CanAcquire(lockOwner, t)
    /\ fetches < MaxFetches
    /\ lockOwner' = t
    /\ pc' = [pc EXCEPT ![t] = "s_fetching"]
    /\ UNCHANGED <<token, now, fetches, cache, used, invalidated>>
    /\ UNCHANGED <<op, ret, got, snap, prevInval, callInval, req>>
    /\ UNCHANGED auxVars

\* fetch_access_token returns a token living ttl seconds: it becomes the
\* session's token, _update_token logs it, the lock is released and the
\* session returned.
FetchOk(t, ttl) ==
    /\ pc[t] = "s_fetching"
    /\ token' = [id |-> fetches + 1, has |-> TRUE, expires_at |-> now + ttl]
    /\ fetches' = fetches + 1
    /\ lockOwner' = NoOwner
    /\ Return(t, token')
    /\ UNCHANGED <<now, cache, used, invalidated>>
    /\ UNCHANGED <<op, ret, snap, prevInval, callInval, req>>
    /\ UNCHANGED auxVars

\* A lock that stays held when the block raises.
LockHeldOnError(owner) == owner

\* `with self._lock:` whose block raises: the lock is released.
LockOnError(owner) == NoOwner

\* A failed exchange that is tried again.
FetchErrorRetried == "s_lock"

\* `session` has no try around fetch_access_token: the exception leaves the
\* property and the operation that called it.
FetchErrorGoesTo == "done"

\* fetch_access_token raises: the `with` block releases the lock and the error
\* propagates to the caller of the operation.
FetchFail(t) ==
    /\ pc[t] = "s_fetching"
    /\ lockOwner' = LockOnError(lockOwner)
    /\ pc' = [pc EXCEPT ![t] = FetchErrorGoesTo]
    /\ req' = [req EXCEPT ![t].outcome = "AuthError"]
    /\ UNCHANGED <<token, now, fetches, cache, used, invalidated>>
    /\ UNCHANGED <<op, ret, got, snap, prevInval, callInval>>
    /\ UNCHANGED auxVars

\* Clearing a token that is not there raises.
InvalidateOutcomeStrict(tok) == IF tok = NoToken THEN "KeyError" ELSE "ok"

\* invalidate_token() on a provider holding tok: raises nothing, held or not.
InvalidateOutcome(tok) == "ok"

\* A caller invalidates the provider's token.
StartInvalidate(t) ==
    /\ pc[t] = "idle"
    /\ \E clear \in BOOLEAN : invalidate_token(t, clear)
    /\ prevInval' = [prevInval EXCEPT ![t] = fetches]
    /\ op' = [op EXCEPT ![t] = "invalidate"]
    /\ pc' = [pc EXCEPT ![t] = "done"]
    /\ req' = [req EXCEPT ![t].outcome = InvalidateOutcome(token)]
    /\ used' = TRUE
    /\ UNCHANGED <<lockOwner, now, fetches>>
    /\ UNCHANGED <<ret, got, snap, callInval>>
    /\ UNCHANGED auxVars

\* The operation of t has ended; its locals are dropped.
Finish(t) ==
    /\ pc[t] = "done"
    /\ pc' = [pc EXCEPT ![t] = "idle"]
    /\ op' = [op EXCEPT ![t] = "none"]
    /\ got' = [got EXCEPT ![t] = NoGot]
    /\ snap' = [snap EXCEPT ![t] = {}]
    /\ callInval' = [callInval EXCEPT ![t] = -1]
    /\ req' = [req EXCEPT ![t] = NoReq]
    /\ UNCHANGED <<provVars, ret, prevInval>>
    /\ UNCHANGED auxVars

-----------------------------------------------------------------------------
(* The bearer-auth interceptor (KognicBearerAuth) on a session of create_session *)

\* A header of another scheme.
BasicHeader(tok) == <<"Basic", tok.id>>

\* f"Bearer {token['access_token']}"
BearerHeader(tok) == <<"Bearer", tok.id>>

\* A retry on every error status.
ShouldRetryAnyError(status) == status >= 400

\* _handle_401: `if r.status_code != 401: return r`
ShouldRetry(status) == status = 401

\* A resend through Session.send, which dispatches the response hooks again.
RetryDispatchesHookAlways == TRUE

\* The resend goes through `r.connection.send`, the transport adapter, which
\* dispatches no response hooks (Session.send would).
RetryDispatchesHook == FALSE

\* Only server errors raise.
RaisesOnlyServerErrors(status) == 500 <= status /\ status < 600

\* raise_for_status(): 4xx and 5xx raise HTTPError.
RaisesForStatus(status) == 400 <= status /\ status < 600

\* A copy sent with the headers it was copied with.
RetryHeadersKept(prepared, tok) == prepared

\* `prep.headers["Authorization"] = f"Bearer {...ensure_token()['access_token']}"`
RetryHeaders(prepared, tok) == [prepared EXCEPT !.auth = BearerHeader(tok)]

\* A caller sends a request through the session; requests calls the auth
\* handler on the prepared request, which asks the provider for a token.
StartRequest(t) ==
    /\ pc[t] = "idle"
    /\ op' = [op EXCEPT ![t] = "request"]
    /\ BeginAcquire(t, "r_hdr1")
    /\ req' = [req EXCEPT ![t] = [NoReq EXCEPT
                  !.orig = [url |-> "u", auth |-> <<>>, hooks |-> <<>>],
                  !.log = <<"ensure">>]]
    /\ UNCHANGED <<token, lockOwner, now, fetches, cache, invalidated>>
    /\ UNCHANGED auxVars

\* KognicBearerAuth.__call__ after ensure_token() returned: the header is set
\* and the hook registered on the same request.
AuthCall(t) ==
    /\ pc[t] = "r_hdr1"
    /\ req' = [req EXCEPT ![t].orig.auth = BearerHeader(got[t].tok),
                          ![t].orig.hooks = Append(@, "_handle_401")]
    /\ pc' = [pc EXCEPT ![t] = "r_send1"]
    /\ UNCHANGED <<provVars, op, ret, got, snap, prevInval, callInval>>
    /\ UNCHANGED auxVars

\* The first transmission; the server answers with status s.
Send1(t, s) ==
    /\ pc[t] = "r_send1"
    /\ req' = [req EXCEPT ![t].tx = @ + 1, ![t].first = s, ![t].last = s,
                          ![t].sent = Append(@, req[t].orig.auth),
                          ![t].log = Append(@, "send")]
    /\ pc' = [pc EXCEPT ![t] = "r_hook"]
    /\ UNCHANGED <<provVars, op, ret, got, snap, prevInval, callInval>>
    /\ UNCHANGED auxVars

\* _handle_401 on a response that is not retried: the response is returned.
HandlePass(t) ==
    /\ pc[t] = "r_hook"
    /\ ~ShouldRetry(req[t].last)
    /\ req' = [req EXCEPT ![t].result = req[t].tx]
    /\ pc' = [pc EXCEPT ![t] = "r_check"]
    /\ UNCHANGED <<provVars, op, ret, got, snap, prevInval, callInval>>
    /\ UNCHANGED auxVars

\* A handler that copies the request without reading the response's body.
HandleStepsNoDrain == <<"invalidate", "copy", "ensure">>

\* The steps of _handle_401 on a 401 up to the second ensure_token(), in the
\* order of the code: invalidate_token(), r.content, r.request.copy(),
\* ensure_token().
HandleSteps == <<"invalidate", "drain", "copy", "ensure">>

\* _handle_401 on a 401: invalidate_token(), the body is drained, the request
\* copied, and ensure_token() is called again.
HandleRetry(t) ==
    /\ pc[t] = "r_hook"
    /\ ShouldRetry(req[t].last)
    /\ \E clear \in BOOLEAN : invalidate_token(t, clear)
    /\ req' = [req EXCEPT
                  ![t].prep = IF req[t].tx = 1 THEN req[t].orig ELSE req[t].prep,
                  ![t].log = @ \o HandleSteps]
    /\ pc' = [pc EXCEPT ![t] = "s_check"]
    /\ ret' = [ret EXCEPT ![t] = "r_hdr2"]
    /\ got' = [got EXCEPT ![t] = NoGot]
    /\ snap' = [snap EXCEPT ![t] = InvalidatedIds(invalidated')]
    /\ callInval' = [callInval EXCEPT ![t] = fetches]
    /\ used' = TRUE
    /\ UNCHANGED <<lockOwner, now, fetches, op, prevInval>>
    /\ UNCHANGED auxVars

\* _handle_401 after the second ensure_token() returned: the copy gets the new
\* header and is sent through the adapter; the server answers with status s;
\* the 401 response is appended to the history of the new response, which is
\* returned.
RetrySend(t, s) ==
    /\ pc[t] = "r_hdr2"
    /\ req' = [req EXCEPT
                  ![t].prep = RetryHeaders(@, got[t].tok),
                  ![t].sent = Append(@, RetryHeaders(req[t].prep, got[t].tok).auth),
                  ![t].tx = @ + 1, ![t].second = s, ![t].last = s,
                  ![t].history = Append(@, req[t].tx),
                  ![t].log = Append(@, "send"),
                  ![t].result = IF RetryDispatchesHook THEN 0 ELSE req[t].tx + 1]
    /\ pc' = [pc EXCEPT ![t] = IF RetryDispatchesHook THEN "r_hook" ELSE "r_check"]
    /\ UNCHANGED <<provVars, op, ret, got, snap, prevInval, callInval>>
    /\ UNCHANGED auxVars

\* send_request of _monkey_patch_send: _check_response(resp), then return resp.
CheckResponse(t) ==
    /\ pc[t] = "r_check"
    /\ req' = [req EXCEPT ![t].outcome =
                  IF RaisesForStatus(req[t].last) THEN "HTTPError" ELSE "ok"]
    /\ pc' = [pc EXCEPT ![t] = "done"]
    /\ UNCHANGED <<provVars, op, ret, got, snap, prevInval, callInval>>
    /\ UNCHANGED auxVars

-----------------------------------------------------------------------------
(* The provider pool: _get_shared_provider and BaseApiClient.session *)

MaxProviders == 2

Clients == {"c1", "c2", "c3"}
\* Resolved client ids; Unresolved stands for credentials that do not resolve.
ClientIds == {"id1", "id2"}
Unresolved == ""
Hosts == {"https://auth.a", "https://auth.b"}
Endpoints == {"/v1/auth/oauth/token", "/alt/token"}
\* What callers construct clients with: one identity, and the identities that
\* differ from it in the client id, the auth host or the token endpoint alone.
BaseConfig ==
    [auth |-> "id1", host |-> "https://auth.a", ep |-> "/v1/auth/oauth/token"]
ClientConfigs ==
    {BaseConfig,
     [auth |-> "id2", host |-> "https://auth.a", ep |-> "/v1/auth/oauth/token"],
     [auth |-> "id1", host |-> "https://auth.b", ep |-> "/v1/auth/oauth/token"],
     [auth |-> "id1", host |-> "https://auth.a", ep |-> "/alt/token"],
     [auth |-> Unresolved, host |-> "https://auth.a", ep |-> "/v1/auth/oauth/token"]}
\* The cache argument a caller passes when it constructs a client.
CacheKinds == {"NoneType", "FileTokenCache"}

\* Providers by identity: 0 is a provider the caller constructed itself and
\* passes as token_provider; 1..MaxProviders are constructed by the lookup.
ExplicitProvider == 0
ProviderIds == 0..MaxProviders
None == -1

Keys == (ClientIds \cup {Unresolved}) \X Hosts \X Endpoints
NoKey == <<>>

NoProvider == [made |-> FALSE, alive |-> FALSE, key |-> NoKey,
               tok |-> FALSE, lock |-> NoOwner, fetches |-> 0]
\* RequestsAuthSession(...): a new provider, holding no token.
NewProvider(k) == [made |-> TRUE, alive |-> TRUE, key |-> k,
                   tok |-> FALSE, lock |-> NoOwner, fetches |-> 0]

NoClient == [st |-> "none", auth |-> Unresolved, host |-> "", ep |-> "",
             kind |-> "NoneType", explicit |-> FALSE, resolved |-> FALSE,
             local |-> None, session |-> None]

PoolAtRest ==
    /\ provider_pool = [k \in Keys |-> 0]
    /\ provider_pool_lock = NoOwner
    /\ prov = [p \in ProviderIds |->
                 IF p = ExplicitProvider THEN NewProvider(NoKey) ELSE NoProvider]
    /\ cl = [c \in Clients |-> NoClient]
    /\ garbage = {}

NumMade == Cardinality({p \in ProviderIds \ {ExplicitProvider} : prov[p].made})

\* The clients (their sessions, and the lookup's local variable) that hold a
\* strong reference to provider p.
Referrers(p) == {c \in Clients : cl[c].local = p \/ cl[c].session = p}

\* A key without the auth host.
PoolKeyNoHost(c) == <<cl[c].auth, CHOOSE h \in Hosts : TRUE, cl[c].ep>>

\* `key = (client_id, auth_host, auth_token_endpoint)`
PoolKey(c) == <<cl[c].auth, cl[c].host, cl[c].ep>>

\* A pool lock that excludes nobody.
PoolLockFreeAlways(owner) == TRUE

\* `with _provider_pool_lock`: the lock is free.
PoolLockFree(owner) == owner = NoOwner

\* A client that looks the pool up whatever it was given.
UsesExplicitNever(c) == FALSE

\* `self._token_provider or _get_shared_provider(...)`
UsesExplicit(c) == cl[c].explicit

\* A pool that is an ordinary dict holds its providers.
HeldByPoolStrongly(p) == \E k \in Keys : provider_pool[k] = p

\* _provider_pool is a WeakValueDictionary: it holds no provider alive.
HeldByPool(p) == FALSE

\* BaseApiClient(auth=..., auth_host=..., auth_token_endpoint=...,
\* token_provider=...[, token_cache=...]): __init__ has no token_cache parameter,
\* so passing one raises TypeError and no client is constructed.
ClientInit(c, cfg, x, kind) ==
    /\ cl[c].st = "none"
    /\ cl' = [cl EXCEPT ![c] =
                IF kind # "NoneType"
                THEN [NoClient EXCEPT !.st = "TypeError", !.kind = kind]
                ELSE [NoClient EXCEPT !.st = "new", !.auth = cfg.auth,
                                      !.host = cfg.host, !.ep = cfg.ep,
                                      !.explicit = x]]
    /\ UNCHANGED <<provider_pool, provider_pool_lock, prov, garbage>>
    /\ UNCHANGED <<provVars, thrVars, validVars, storeVars, cliVars, miscVars>>

\* session, first access, with an explicit token_provider: create_session on it.
SessionExplicit(c) ==
    /\ cl[c].st = "new"
    /\ UsesExplicit(c)
    /\ cl' = [cl EXCEPT ![c].st = "ready", ![c].session = ExplicitProvider]
    /\ UNCHANGED <<provider_pool, provider_pool_lock, prov, garbage>>
    /\ UNCHANGED <<provVars, thrVars, validVars, storeVars, cliVars, miscVars>>

\* A lookup that takes every client to the pool.
HasCredentialsAlways(auth) == TRUE

\* `if not client_id or not client_secret:` does not hold: the credentials
\* resolved to a client id and a secret.
HasCredentials(auth) == auth # Unresolved

\* session, first access, without one: _get_shared_provider resolves the
\* credentials; credentials that do not resolve give a provider of its own,
\* outside the pool.
ResolveCredentials(c) ==
    /\ cl[c].st = "new"
    /\ ~UsesExplicit(c)
    /\ IF ~HasCredentials(cl[c].auth)
       THEN /\ NumMade < MaxProviders
            /\ prov' = [prov EXCEPT ![NumMade + 1] = NewProvider(NoKey)]
            /\ cl' = [cl EXCEPT ![c].st = "got", ![c].resolved = TRUE,
                                ![c].local = NumMade + 1]
       ELSE /\ cl' = [cl EXCEPT ![c].st = "pool_wait", ![c].resolved = TRUE]
            /\ UNCHANGED prov
    /\ UNCHANGED <<provider_pool, provider_pool_lock, garbage>>
    /\ UNCHANGED <<provVars, thrVars, validVars, storeVars, cliVars, miscVars>>

\* `with _provider_pool_lock:` acquired.
PoolLock(c) ==
    /\ cl[c].st = "pool_wait"
    /\ PoolLockFree(provider_pool_lock)
    /\ provider_pool_lock' = c
    /\ cl' = [cl EXCEPT ![c].st = "pool_get"]
    /\ UNCHANGED <<provider_pool, prov, garbage>>
    /\ UNCHANGED <<provVars, thrVars, validVars, storeVars, cliVars, miscVars>>

\* A lookup that returns with the pool lock still held.
PoolLockKept(c) == c

\* The end of `with _provider_pool_lock:`: the lock is released before the
\* provider is returned.
PoolLockReleased(c) == NoOwner

\* `provider = _provider_pool.get(key)`: with an entry, the lock is released
\* and the provider returned.
PoolGet(c) ==
    /\ cl[c].st = "pool_get"
    /\ IF provider_pool[PoolKey(c)] # 0
       THEN /\ cl' = [cl EXCEPT ![c].st = "got",
                                ![c].local = provider_pool[PoolKey(c)]]
            /\ provider_pool_lock' = PoolLockReleased(c)
       ELSE /\ cl' = [cl EXCEPT ![c].st = "pool_put"]
            /\ UNCHANGED provider_pool_lock
    /\ UNCHANGED <<provider_pool, prov, garbage>>
    /\ UNCHANGED <<provVars, thrVars, validVars, storeVars, cliVars, miscVars>>

\* `if provider is None:` a provider is constructed and registered; the lock
\* is released and the provider returned.
PoolPut(c) ==
    /\ cl[c].st = "pool_put"
    /\ NumMade < MaxProviders
    /\ prov' = [prov EXCEPT ![NumMade + 1] = NewProvider(PoolKey(c))]
    /\ provider_pool' = [provider_pool EXCEPT ![PoolKey(c)] = NumMade + 1]
    /\ provider_pool_lock' = PoolLockReleased(c)
    /\ cl' = [cl EXCEPT ![c].st = "got", ![c].local = NumMade + 1]
    /\ UNCHANGED <<garbage>>
    /\ UNCHANGED <<provVars, thrVars, validVars, storeVars, cliVars, miscVars>>

\* `self._session = create_session(token_provider=provider, ...)`: the session's
\* auth handler holds the provider.
CreateSession(c) ==
    /\ cl[c].st = "got"
    /\ cl' = [cl EXCEPT ![c].st = "ready", ![c].session = cl[c].local,
                        ![c].local = None]
    /\ UNCHANGED <<provider_pool, provider_pool_lock, prov, garbage>>
    /\ UNCHANGED <<provVars, thrVars, validVars, storeVars, cliVars, miscVars>>

\* The client sends a request: the auth handler asks the provider for a token.
ClientRequest(c) ==
    /\ cl[c].st = "ready"
    /\ cl' = [cl EXCEPT ![c].st = "t_check"]
    /\ UNCHANGED <<provider_pool, provider_pool_lock, prov, garbage>>
    /\ UNCHANGED <<provVars, thrVars, validVars, storeVars, cliVars, miscVars>>

\* The provider's `if not self.token`, with a token held.
ClientTokenHit(c) ==
    /\ cl[c].st = "t_check"
    /\ prov[cl[c].session].tok
    /\ cl' = [cl EXCEPT ![c].st = "ready"]
    /\ UNCHANGED <<provider_pool, provider_pool_lock, prov, garbage>>
    /\ UNCHANGED <<provVars, thrVars, validVars, storeVars, cliVars, miscVars>>

\* The provider's `if not self.token`, with none held.
ClientTokenMiss(c) ==
    /\ cl[c].st = "t_check"
    /\ ~prov[cl[c].session].tok
    /\ cl' = [cl EXCEPT ![c].st = "t_lock"]
    /\ UNCHANGED <<provider_pool, provider_pool_lock, prov, garbage>>
    /\ UNCHANGED <<provVars, thrVars, validVars, storeVars, cliVars, miscVars>>

\* One lock for all providers: it is held while any provider fetches.
LockOfAll(p) ==
    IF \E q \in ProviderIds : prov[q].lock # NoOwner
    THEN prov[CHOOSE q \in ProviderIds : prov[q].lock # NoOwner].lock
    ELSE NoOwner

\* `self._lock = threading.RLock()` in __init__: each provider has a lock of
\* its own.
LockOf(p) == prov[p].lock

\* The provider's `with self._lock:` acquired; the fetch begins.
ClientTokenLock(c) ==
    /\ cl[c].st = "t_lock"
    /\ CanAcquire(LockOf(cl[c].session), c)
    /\ prov' = [prov EXCEPT ![cl[c].session].lock = c]
    /\ cl' = [cl EXCEPT ![c].st = "t_fetch"]
    /\ UNCHANGED <<provider_pool, provider_pool_lock, garbage>>
    /\ UNCHANGED <<provVars, thrVars, validVars, storeVars, cliVars, miscVars>>

\* fetch_access_token returns (ok) or raises: the lock is released.
ClientTokenFetched(c, ok) ==
    /\ cl[c].st = "t_fetch"
    /\ prov' = [prov EXCEPT ![cl[c].session].lock = NoOwner,
                            ![cl[c].session].tok = IF ok THEN TRUE ELSE @,
                            ![cl[c].session].fetches = IF ok THEN @ + 1 ELSE @]
    /\ cl' = [cl EXCEPT ![c].st = "ready"]
    /\ UNCHANGED <<provider_pool, provider_pool_lock, garbage>>
    /\ UNCHANGED <<provVars, thrVars, validVars, storeVars, cliVars, miscVars>>

\* The caller drops its references to the client and to its session.  The
\* session patched by _monkey_patch_send is part of a reference cycle
\* (session.send -> send_request -> vanilla_send -> session), so it stays,
\* with its auth handler and the provider, until the collector finds it.
ClientDrop(c) ==
    /\ cl[c].st \in {"new", "ready"}
    /\ garbage' = IF cl[c].session # None THEN garbage \cup {cl[c].session}
                  ELSE garbage
    /\ cl' = [cl EXCEPT ![c] = [NoClient EXCEPT !.st = "dropped"]]
    /\ UNCHANGED <<provider_pool, provider_pool_lock, prov>>
    /\ UNCHANGED <<provVars, thrVars, validVars, storeVars, cliVars, miscVars>>

\* The garbage collector reclaims the unreachable sessions that hold provider
\* p; a provider that nothing else holds is reclaimed with them, and the
\* WeakValueDictionary drops its entry.
Collect(p) ==
    /\ p \in garbage
    /\ garbage' = garbage \ {p}
    /\ IF p # ExplicitProvider /\ Referrers(p) = {} /\ ~HeldByPool(p)
       THEN /\ prov' = [prov EXCEPT ![p].alive = FALSE]
            /\ provider_pool' = [k \in Keys |->
                                    IF provider_pool[k] = p THEN 0
                                    ELSE provider_pool[k]]
       ELSE UNCHANGED <<prov, provider_pool>>
    /\ UNCHANGED <<provider_pool_lock, cl>>
    /\ UNCHANGED <<provVars, thrVars, validVars, storeVars, cliVars, miscVars>>

-----------------------------------------------------------------------------
(* The token caches: FileTokenCache, KeyringTokenCache and the CLI's cache *)

MaxCacheOps == 2

Procs == {"p1", "p2"}
Backends == {"file", "keyring", "cli"}
IoResults == {"ok", "error"}
\* A write that fails may fail before the file is opened ("error") or after
\* open(..., "w") has truncated it ("torn").
WriteResults == {"ok", "error", "torn"}

\* Strings are sequences of characters.  The identities the caches are used
\* with: (auth_server, client_id).
CacheIdentities ==
    {<< <<"h">>, <<"a">> >>,
     << <<"h", ":", "p">>, <<"a">> >>}

\* f"{auth_server}:{client_id}"
make_key(auth_server, client_id) == auth_server \o <<":">> \o client_id

CacheKeys == {make_key(i[1], i[2]) : i \in CacheIdentities}

\* The tokens that are saved: fetched tokens, with or without "expires_at".
SaveTokens ==
    {[id |-> 1, has |-> TRUE, expires_at |-> 45],
     [id |-> 2, has |-> FALSE, expires_at |-> -1]}

\* JSON values: a dict as the sequence of its (name, value) pairs, a list, or
\* nothing.  A text is garbage or the JSON of a value.
NoValue == [t |-> "null", pairs |-> <<>>]
ListValue == [t |-> "list", pairs |-> <<>>]
EmptyDict == [t |-> "dict", pairs |-> <<>>]
NoText == [kind |-> "none", value |-> NoValue]
GarbageText == [kind |-> "garbage", value |-> NoValue]
MissingFile == [kind |-> "missing", value |-> NoValue]

\* The value of a token dict.
TokenValue(tok) ==
    [t |-> "dict",
     pairs |-> IF tok.has
               THEN << <<"access_token", tok.id>>, <<"expires_at", tok.expires_at>> >>
               ELSE << <<"access_token", tok.id>> >>]

\* json.dumps(value)
json_dumps(value) == [kind |-> "json", value |-> value]

\* json.loads(text): the value, or JSONDecodeError.
json_loads(text) ==
    IF text.kind = "json" THEN [exc |-> "none", value |-> text.value]
    ELSE [exc |-> "JSONDecodeError", value |-> NoValue]

\* dict.get(name) on the pairs of a dict, with a default.
Field(pairs, name, default) ==
    IF \E i \in DOMAIN pairs : pairs[i][1] = name
    THEN pairs[CHOOSE i \in DOMAIN pairs : pairs[i][1] = name][2]
    ELSE default

\* The token record of a dict value.
AsToken(value) ==
    [id |-> Field(value.pairs, "access_token", -1),
     has |-> \E i \in DOMAIN value.pairs : value.pairs[i][1] = "expires_at",
     expires_at |-> Field(value.pairs, "expires_at", -1)]

\* An assignment that keeps an entry already there.
dict_setdefault(pairs, k, v) ==
    IF \E i \in DOMAIN pairs : pairs[i][1] = k THEN pairs
    ELSE Append(pairs, <<k, v>>)

\* `data[key] = token`
dict_set(pairs, k, v) ==
    IF \E i \in DOMAIN pairs : pairs[i][1] = k
    THEN [i \in DOMAIN pairs |-> IF pairs[i][1] = k THEN <<k, v>> ELSE pairs[i]]
    ELSE Append(pairs, <<k, v>>)

\* A load that catches decoding errors only.
LoadCatchesDecodeOnly(exc) == exc = "JSONDecodeError"

\* load: `except Exception`
LoadCatches(exc) == TRUE

\* A save that catches nothing.
SaveCatchesNothing(exc) == FALSE

\* save: `except Exception`
SaveCatches(exc) == TRUE

\* What an operation hands to its caller: the token (or nothing), or the
\* exception it lets through.
Outcome(catches, exc, tok) ==
    IF exc = "none" THEN [raised |-> FALSE, tok |-> tok]
    ELSE IF catches THEN [raised |-> FALSE, tok |-> NoToken]
    ELSE [raised |-> TRUE, tok |-> NoToken]

\* FileTokenCache._load_all on the file's text; rd tells whether reading works.
\* A missing, unreadable or undecodable file gives {}.
load_all(doc, rd) ==
    IF rd = "error" \/ doc.kind = "missing" THEN EmptyDict
    ELSE IF json_loads(doc).exc # "none" THEN EmptyDict
    ELSE json_loads(doc).value

\* The body of load after the stored value was found: `is_valid(token)`, where
\* token.get fails on a value that is no dict.
checked_token(value, t) ==
    IF value.t # "dict" THEN [exc |-> "AttributeError", tok |-> NoToken]
    ELSE [exc |-> "none", tok |-> cache_load(AsToken(value), t)]

\* FileTokenCache.load
file_load(doc, key, t, rd) ==
    LET data == load_all(doc, rd)
        r == IF data.t # "dict" THEN [exc |-> "AttributeError", tok |-> NoToken]
             ELSE IF Field(data.pairs, key, NoValue) = NoValue
                  THEN [exc |-> "none", tok |-> NoToken]
             ELSE checked_token(Field(data.pairs, key, NoValue), t)
    IN  Outcome(LoadCatches(r.exc), r.exc, r.tok)

\* A keyring taken as usable whatever the machine has.
keyring_usable_always(state) == TRUE

\* The keyring is importable and its backend's type name has no "fail".
keyring_usable(state) == state = "usable"

\* KeyringTokenCache.load; rd tells whether get_password works.
keyring_load(state, stored, t, rd) ==
    IF ~keyring_usable(state) THEN [raised |-> FALSE, tok |-> NoToken]
    ELSE LET r == IF rd = "error" THEN [exc |-> "KeyringError", tok |-> NoToken]
                  ELSE IF stored = NoText THEN [exc |-> "none", tok |-> NoToken]
                  ELSE IF json_loads(stored).exc # "none"
                       THEN [exc |-> json_loads(stored).exc, tok |-> NoToken]
                  ELSE checked_token(json_loads(stored).value, t)
         IN  Outcome(LoadCatches(r.exc), r.exc, r.tok)

\* load_cached_token of the CLI on the keyring; rd likewise.
cli_load(state, stored, t, rd) ==
    IF ~keyring_usable(state) THEN [raised |-> FALSE, tok |-> NoToken]
    ELSE LET r == IF rd = "error" THEN [exc |-> "KeyringError", tok |-> NoToken]
                  ELSE IF stored = NoText THEN [exc |-> "none", tok |-> NoToken]
                  ELSE IF json_loads(stored).exc # "none"
                       THEN [exc |-> json_loads(stored).exc, tok |-> NoToken]
                  ELSE IF json_loads(stored).value.t # "dict"
                       THEN [exc |-> "AttributeError", tok |-> NoToken]
                  ELSE [exc |-> "none",
                        tok |-> load_cached_token(AsToken(json_loads(stored).value), t)]
         IN  Outcome(LoadCatches(r.exc), r.exc, r.tok)

\* The stored value under key, as the store holds it (nothing when the store
\* cannot be decoded or has no dict).
RawEntry(key) ==
    IF cacheBackend = "file"
    THEN IF fileDoc.kind = "json" /\ fileDoc.value.t = "dict"
         THEN Field(fileDoc.value.pairs, key, NoValue)
         ELSE NoValue
    ELSE IF keyringStore[key].kind = "json" THEN keyringStore[key].value
         ELSE NoValue

NoCacheOp == [name |-> "none", st |-> "idle", key |-> <<>>, tok |-> NoToken,
              data |-> NoValue, stale |-> FALSE, raised |-> FALSE,
              result |-> NoToken, seen |-> NoValue, rdok |-> TRUE,
              histTok |-> NoToken, histOk |-> FALSE, at |-> -1,
              raced |-> FALSE, called |-> FALSE, wrote |-> FALSE,
              wres |-> "none"]
NoHist == [tok |-> NoToken, ok |-> FALSE]

StoreAtRest ==
    /\ fileDoc = MissingFile
    /\ keyringStore = [k \in CacheKeys |-> NoText]
    /\ keyringState = "usable"
    /\ cacheBackend = "file"
    /\ cacheMode = "file"
    /\ cop = [p \in Procs |-> NoCacheOp]
    /\ hist = [k \in CacheKeys |-> NoHist]
    /\ nops = 0

\* The record of a finished load.
LoadDone(p, key, out, rd) ==
    [NoCacheOp EXCEPT !.name = "load", !.st = "done", !.key = key,
                      !.raised = out.raised, !.result = out.tok,
                      !.seen = RawEntry(key), !.rdok = (rd = "ok"),
                      !.histTok = hist[key].tok, !.histOk = hist[key].ok,
                      !.at = now,
                      !.called = (cacheBackend # "file"
                                     /\ keyring_usable(keyringState))]

\* A process calls FileTokenCache.load.
FileCacheLoad(p, i, rd) ==
    /\ cacheBackend = "file" /\ cop[p].st = "idle" /\ nops < MaxCacheOps
    /\ nops' = nops + 1
    /\ cop' = [cop EXCEPT ![p] =
                  LoadDone(p, make_key(i[1], i[2]),
                           file_load(fileDoc, make_key(i[1], i[2]), now, rd), rd)]
    /\ UNCHANGED <<fileDoc, keyringStore, keyringState, cacheBackend, cacheMode, hist>>
    /\ UNCHANGED <<provVars, thrVars, validVars, poolVars, cliVars, miscVars>>

\* A process calls KeyringTokenCache.load.
KeyringCacheLoad(p, i, rd) ==
    /\ cacheBackend = "keyring" /\ cop[p].st = "idle" /\ nops < MaxCacheOps
    /\ nops' = nops + 1
    /\ cop' = [cop EXCEPT ![p] =
                  LoadDone(p, make_key(i[1], i[2]),
                           keyring_load(keyringState,
                                        keyringStore[make_key(i[1], i[2])], now, rd),
                           IF keyring_usable(keyringState) THEN rd ELSE "error")]
    /\ UNCHANGED <<fileDoc, keyringStore, keyringState, cacheBackend, cacheMode, hist>>
    /\ UNCHANGED <<provVars, thrVars, validVars, poolVars, cliVars, miscVars>>

\* A process calls load_cached_token.
CliCacheLoad(p, i, rd) ==
    /\ cacheBackend = "cli" /\ cop[p].st = "idle" /\ nops < MaxCacheOps
    /\ nops' = nops + 1
    /\ cop' = [cop EXCEPT ![p] =
                  LoadDone(p, make_key(i[1], i[2]),
                           cli_load(keyringState,
                                    keyringStore[make_key(i[1], i[2])], now, rd),
                           IF keyring_usable(keyringState) THEN rd ELSE "error")]
    /\ UNCHANGED <<fileDoc, keyringStore, keyringState, cacheBackend, cacheMode, hist>>
    /\ UNCHANGED <<provVars, thrVars, validVars, poolVars, cliVars, miscVars>>

\* FileTokenCache.save, `data = self._load_all()`: the process reads the file.
FileCacheSaveRead(p, i, tok, rd) ==
    /\ cacheBackend = "file" /\ cop[p].st = "idle" /\ nops < MaxCacheOps
    /\ nops' = nops + 1
    /\ cop' = [cop EXCEPT ![p] =
                  [NoCacheOp EXCEPT !.name = "save", !.st = "read",
                                    !.key = make_key(i[1], i[2]), !.tok = tok,
                                    !.data = load_all(fileDoc, rd),
                                    !.rdok = (rd = "ok"),
                                    !.stale = (rd = "error")]]
    /\ UNCHANGED <<fileDoc, keyringStore, keyringState, cacheBackend, cacheMode, hist>>
    /\ UNCHANGED <<provVars, thrVars, validVars, poolVars, cliVars, miscVars>>

\* What _save_all(data) does to the file: the new text, or the text a failed
\* write leaves behind.
save_all(doc, data, wr) ==
    IF wr = "ok" THEN json_dumps(data)
    ELSE IF wr = "torn" THEN GarbageText
    ELSE doc

\* The records of the processes after p ended its file operation: a process
\* that has read the file and not yet written holds a snapshot that another
\* process's write has made old.
AfterFileOp(p, done, changed) ==
    [q \in Procs |->
        IF q = p THEN done
        ELSE IF changed /\ cop[q].st = "read"
             THEN [cop[q] EXCEPT !.stale = TRUE, !.raced = TRUE]
        ELSE cop[q]]

\* FileTokenCache.save, `data[key] = token; self._save_all(data)`: the whole
\* document is written from what was read; wr tells whether writing works.
\* Every error is caught and logged.
FileCacheSaveWrite(p, wr) ==
    /\ cop[p].name = "save" /\ cop[p].st = "read"
    /\ LET shaped == cop[p].data.t = "dict"
           exc == IF ~shaped THEN "TypeError"
                  ELSE IF wr # "ok" THEN "OSError" ELSE "none"
           data == [cop[p].data EXCEPT
                       !.pairs = dict_set(@, cop[p].key, TokenValue(cop[p].tok))]
           out == Outcome(SaveCatches(exc), exc, cop[p].tok)
           text == IF shaped THEN save_all(fileDoc, data, wr) ELSE fileDoc
       IN  /\ fileDoc' = text
           /\ hist' = [k \in CacheKeys |->
                          IF k = cop[p].key
                          THEN [tok |-> cop[p].tok, ok |-> exc = "none"]
                          ELSE IF (exc = "none" /\ cop[p].stale) \/ (shaped /\ wr = "torn")
                               THEN [hist[k] EXCEPT !.ok = FALSE]
                          ELSE hist[k]]
           /\ cop' = AfterFileOp(p, [cop[p] EXCEPT !.st = "done",
                                                   !.raised = out.raised,
                                                   !.wrote = shaped,
                                                   !.wres = IF shaped THEN wr
                                                            ELSE "none"],
                                 shaped /\ wr # "error")
    /\ UNCHANGED <<keyringStore, keyringState, cacheBackend, cacheMode, nops>>
    /\ UNCHANGED <<provVars, thrVars, validVars, poolVars, cliVars, miscVars>>

\* What a keyring save does to the stored text and tells its caller.
keyring_save(state, stored, tok, wr) ==
    IF ~keyring_usable(state) THEN [raised |-> FALSE, text |-> stored, wrote |-> FALSE]
    ELSE LET exc == IF wr = "error" THEN "KeyringError" ELSE "none"
         IN  [raised |-> Outcome(SaveCatches(exc), exc, tok).raised,
              text |-> IF exc = "none" THEN json_dumps(TokenValue(tok)) ELSE stored,
              wrote |-> exc = "none"]

\* The record and the effects of a finished keyring save.
KeyringSaved(p, key, tok, out) ==
    /\ nops' = nops + 1
    /\ keyringStore' = [keyringStore EXCEPT ![key] = out.text]
    /\ hist' = [hist EXCEPT ![key] = [tok |-> tok, ok |-> out.wrote]]
    /\ cop' = [cop EXCEPT ![p] =
                  [NoCacheOp EXCEPT !.name = "save", !.st = "done", !.key = key,
                                    !.tok = tok, !.raised = out.raised,
                                    !.called = keyring_usable(keyringState),
                                    !.wrote = out.wrote]]

\* A process calls KeyringTokenCache.save; wr tells whether set_password works.
KeyringCacheSave(p, i, tok, wr) ==
    /\ cacheBackend = "keyring" /\ cop[p].st = "idle" /\ nops < MaxCacheOps
    /\ KeyringSaved(p, make_key(i[1], i[2]), tok,
                    keyring_save(keyringState, keyringStore[make_key(i[1], i[2])],
                                 tok, wr))
    /\ UNCHANGED <<fileDoc, keyringState, cacheBackend, cacheMode>>
    /\ UNCHANGED <<provVars, thrVars, validVars, poolVars, cliVars, miscVars>>

\* A process calls save_token of the CLI, after it fetched tok.
CliCacheSave(p, i, tok, wr) ==
    /\ cacheBackend = "cli" /\ cop[p].st = "idle" /\ nops < MaxCacheOps
    /\ KeyringSaved(p, make_key(i[1], i[2]), tok,
                    keyring_save(keyringState, keyringStore[make_key(i[1], i[2])],
                                 tok, wr))
    /\ UNCHANGED <<fileDoc, keyringState, cacheBackend, cacheMode>>
    /\ UNCHANGED <<provVars, thrVars, validVars, poolVars, cliVars, miscVars>>

\* A deletion that empties the dict.
dict_del_all(pairs, k) == <<>>

\* `del data[key]`
dict_del(pairs, k) ==
    LET Other(x) == x[1] # k IN SelectSeq(pairs, Other)

\* clear: `except Exception`
ClearCatches(exc) == TRUE

\* FileTokenCache.clear, `data = self._load_all()`: the process reads the file.
FileCacheClearRead(p, i, rd) ==
    /\ cacheBackend = "file" /\ cop[p].st = "idle" /\ nops < MaxCacheOps
    /\ nops' = nops + 1
    /\ cop' = [cop EXCEPT ![p] =
                  [NoCacheOp EXCEPT !.name = "clear", !.st = "read",
                                    !.key = make_key(i[1], i[2]),
                                    !.data = load_all(fileDoc, rd),
                                    !.rdok = (rd = "ok"),
                                    !.stale = (rd = "error")]]
    /\ UNCHANGED <<fileDoc, keyringStore, keyringState, cacheBackend, cacheMode, hist>>
    /\ UNCHANGED <<provVars, thrVars, validVars, poolVars, cliVars, miscVars>>

\* FileTokenCache.clear, `if key in data: del data[key]; self._save_all(data)`:
\* with the key in what was read the whole document is written without it,
\* otherwise nothing is written.  Every error is caught and logged.
FileCacheClearWrite(p, wr) ==
    /\ cop[p].name = "clear" /\ cop[p].st = "read"
    /\ LET present == /\ cop[p].data.t = "dict"
                      /\ \E j \in DOMAIN cop[p].data.pairs :
                            cop[p].data.pairs[j][1] = cop[p].key
           exc == IF present /\ wr # "ok" THEN "OSError" ELSE "none"
           data == [cop[p].data EXCEPT !.pairs = dict_del(@, cop[p].key)]
           out == Outcome(ClearCatches(exc), exc, NoToken)
       IN  /\ fileDoc' = IF present THEN save_all(fileDoc, data, wr) ELSE fileDoc
           /\ hist' = [k \in CacheKeys |->
                          IF k = cop[p].key /\ present /\ wr = "ok" THEN NoHist
                          ELSE IF present /\ ((wr = "ok" /\ cop[p].stale) \/ wr = "torn")
                               THEN [hist[k] EXCEPT !.ok = FALSE]
                          ELSE hist[k]]
           /\ cop' = AfterFileOp(p, [cop[p] EXCEPT !.st = "done",
                                                   !.raised = out.raised,
                                                   !.wrote = present,
                                                   !.wres = IF present THEN wr
                                                            ELSE "none"],
                                 present /\ wr # "error")
    /\ UNCHANGED <<keyringStore, keyringState, cacheBackend, cacheMode, nops>>
    /\ UNCHANGED <<provVars, thrVars, validVars, poolVars, cliVars, miscVars>>

\* What a keyring clear does to the stored text and tells its caller;
\* delete_password raises when there is no such password.
keyring_clear(state, stored, wr) ==
    IF ~keyring_usable(state) THEN [raised |-> FALSE, text |-> stored, wrote |-> FALSE]
    ELSE LET exc == IF stored = NoText THEN "PasswordDeleteError"
                    ELSE IF wr = "error" THEN "KeyringError" ELSE "none"
         IN  [raised |-> Outcome(ClearCatches(exc), exc, NoToken).raised,
              text |-> IF exc = "none" THEN NoText ELSE stored,
              wrote |-> exc = "none"]

\* The record and the effects of a finished keyring clear.
KeyringCleared(p, key, out) ==
    /\ nops' = nops + 1
    /\ keyringStore' = [keyringStore EXCEPT ![key] = out.text]
    /\ hist' = [hist EXCEPT ![key] = IF out.wrote THEN NoHist ELSE @]
    /\ cop' = [cop EXCEPT ![p] =
                  [NoCacheOp EXCEPT !.name = "clear", !.st = "done", !.key = key,
                                    !.raised = out.raised,
                                    !.called = keyring_usable(keyringState),
                                    !.wrote = out.wrote]]

\* A process calls KeyringTokenCache.clear; wr tells whether delete_password
\* works.
KeyringCacheClear(p, i, wr) ==
    /\ cacheBackend = "keyring" /\ cop[p].st = "idle" /\ nops < MaxCacheOps
    /\ KeyringCleared(p, make_key(i[1], i[2]),
                      keyring_clear(keyringState, keyringStore[make_key(i[1], i[2])], wr))
    /\ UNCHANGED <<fileDoc, keyringState, cacheBackend, cacheMode>>
    /\ UNCHANGED <<provVars, thrVars, validVars, poolVars, cliVars, miscVars>>

\* A process calls clear_token of the CLI.
CliCacheClear(p, i, wr) ==
    /\ cacheBackend = "cli" /\ cop[p].st = "idle" /\ nops < MaxCacheOps
    /\ KeyringCleared(p, make_key(i[1], i[2]),
                      keyring_clear(keyringState, keyringStore[make_key(i[1], i[2])], wr))
    /\ UNCHANGED <<fileDoc, keyringState, cacheBackend, cacheMode>>
    /\ UNCHANGED <<provVars, thrVars, validVars, poolVars, cliVars, miscVars>>

\* make_cache with every mode sent to the keyring.
make_cache_keyring_first(mode, state) ==
    IF mode = "none" THEN "none" ELSE "keyring"

\* make_cache(mode): the backend constructed ("none": no cache).
make_cache(mode, state) ==
    IF mode = "none" THEN "none"
    ELSE IF mode = "file" THEN "file"
    ELSE IF mode = "keyring" THEN "keyring"
    ELSE IF keyring_usable(state) THEN "keyring"
    ELSE "file"

\* The modes callers pass, "other" standing for any other string.
Modes == {"none", "file", "keyring", "auto", "other"}

\* The application constructs its cache.
MakeCache(mode) ==
    /\ cacheBackend = "unset"
    /\ cacheBackend' = make_cache(mode, keyringState)
    /\ cacheMode' = mode
    /\ UNCHANGED <<fileDoc, keyringStore, keyringState, cop, hist, nops>>
    /\ UNCHANGED <<provVars, thrVars, validVars, poolVars, cliVars, miscVars>>

\* The operation has returned to its caller.
CacheReturn(p) ==
    /\ cop[p].st = "done" /\ ~cop[p].raised
    /\ cop' = [cop EXCEPT ![p] = NoCacheOp]
    /\ UNCHANGED <<fileDoc, keyringStore, keyringState, cacheBackend, cacheMode, hist, nops>>
    /\ UNCHANGED <<provVars, thrVars, validVars, poolVars, cliVars, miscVars>>

-----------------------------------------------------------------------------
(* The CLI commands: get-access-token (run) and kog                         *)
(* (_create_authenticated_session), one invocation after another            *)

MaxRuns == 2

Commands == {"get_access_token", "kog"}
\* What the credentials resolve to: a client id, none, or an error.
Resolutions == {"id", "none", "raises"}

\* The locals of a command, and what it has done so far: held is the keyring's
\* text under the key when the command started, rdok and wrok tell whether the
\* keyring answered the command's read and write, reads and writes count its
\* get_password and set_password calls and nfetch its token exchanges.
NoCmd == [name |-> "none", st |-> "idle", no_cache |-> FALSE, cid |-> "none",
          key |-> <<>>, loaded |-> FALSE, cached |-> NoToken, had_token |-> FALSE,
          held |-> NoText, rdok |-> FALSE, at |-> -1, reads |-> 0, writes |-> 0,
          wrok |-> FALSE, nfetch |-> 0, fetched |-> NoToken, saved |-> FALSE,
          out |-> NoToken, rc |-> -1]

CliAtRest ==
    /\ cmd = NoCmd
    /\ nruns = 0

\* A command that uses the keyring whatever its flag.
UsesCacheAlways(no_cache) == TRUE

\* `if not parsed.no_cache`, `use_cache=not parsed.no_cache`
UsesCache(no_cache) == ~no_cache

\* A cached token that is never taken.
CacheHitNever(cached) == FALSE

\* `if cached:`
CacheHit(cached) == cached # NoToken

\* A command that never writes back.
WritesBackNever(name, had_token) == FALSE

\* run saves after every fetch (a hit has returned before);
\* _create_authenticated_session: `if use_cache and not had_token`.
WritesBack(name, had_token) == name = "get_access_token" \/ ~had_token

\* The command's result: what it printed or holds, and its exit code.
Ended(c, tok, rc) == [c EXCEPT !.st = "done", !.out = tok, !.rc = rc]

\* A command starts in a new process for the identity i.  kog constructs its
\* RequestsAuthSession first, which raises when the credentials do not resolve.
CmdStart(name, no_cache, i, res) ==
    /\ cmd.st = "idle" /\ nruns < MaxRuns
    /\ nruns' = nruns + 1
    /\ token' = NoToken
    /\ cmd' = LET c == [NoCmd EXCEPT !.name = name, !.st = "load",
                                     !.no_cache = no_cache,
                                     !.cid = res, !.key = make_key(i[1], i[2]),
                                     !.held = keyringStore[make_key(i[1], i[2])]]
              IN  IF name = "kog" /\ res = "raises" THEN Ended(c, NoToken, 1) ELSE c
    /\ UNCHANGED <<lockOwner, now, fetches, cache, used, invalidated>>
    /\ UNCHANGED <<thrVars, validVars, poolVars, storeVars, miscVars>>

\* The cache is not used, or there is no client id to look up: no load.  In run
\* the RequestsAuthSession is constructed now, and raises when the credentials
\* do not resolve.
CmdSkipLoad ==
    /\ cmd.st = "load"
    /\ ~(UsesCache(cmd.no_cache) /\ cmd.cid = "id")
    /\ cmd' = IF cmd.cid = "raises" THEN Ended(cmd, NoToken, 1)
              ELSE [cmd EXCEPT !.st = "session"]
    /\ UNCHANGED nruns
    /\ UNCHANGED <<provVars, thrVars, validVars, poolVars, storeVars, miscVars>>

\* `cached = load_cached_token(auth_host, client_id)`; `if cached:` run prints
\* the token and returns 0, _create_authenticated_session puts it into the
\* provider.  rd tells whether get_password works.
CmdLoad(rd) ==
    /\ cmd.st = "load"
    /\ UsesCache(cmd.no_cache) /\ cmd.cid = "id"
    /\ LET out == cli_load(keyringState, keyringStore[cmd.key], now, rd)
           hit == CacheHit(out.tok)
           c == [cmd EXCEPT !.loaded = TRUE, !.cached = out.tok,
                            !.rdok = (keyring_usable(keyringState) /\ rd = "ok"),
                            !.at = now,
                            !.reads = IF keyring_usable(keyringState) THEN @ + 1 ELSE @]
       IN  /\ cmd' = IF out.raised THEN Ended(c, NoToken, 1)
                     ELSE IF hit /\ cmd.name = "get_access_token"
                          THEN Ended(c, out.tok, 0)
                     ELSE [c EXCEPT !.st = "session", !.had_token = hit]
           /\ token' = IF ~out.raised /\ hit /\ cmd.name = "kog" THEN out.tok
                       ELSE token
    /\ UNCHANGED nruns
    /\ UNCHANGED <<lockOwner, now, fetches, cache, used, invalidated>>
    /\ UNCHANGED <<thrVars, validVars, poolVars, storeVars, miscVars>>

\* `auth_session.session` with a token in the provider: no fetch.
CmdSessionHit ==
    /\ cmd.st = "session"
    /\ ~NeedsFetch(token)
    /\ cmd' = [cmd EXCEPT !.st = "save"]
    /\ UNCHANGED nruns
    /\ UNCHANGED <<provVars, thrVars, validVars, poolVars, storeVars, miscVars>>

\* `session.session` with no token in the provider: fetch_access_token returns
\* a token living ttl seconds.
CmdFetchOk(ttl) ==
    /\ cmd.st = "session"
    /\ NeedsFetch(token) /\ CanAcquire(lockOwner, "cli")
    /\ fetches < MaxFetches
    /\ token' = [id |-> fetches + 1, has |-> TRUE, expires_at |-> now + ttl]
    /\ fetches' = fetches + 1
    /\ cmd' = [cmd EXCEPT !.st = "save", !.nfetch = @ + 1, !.fetched = token']
    /\ UNCHANGED nruns
    /\ UNCHANGED <<lockOwner, now, cache, used, invalidated>>
    /\ UNCHANGED <<thrVars, validVars, poolVars, storeVars, miscVars>>

\* fetch_access_token raises: the command prints the error and returns 1.
CmdFetchFail ==
    /\ cmd.st = "session"
    /\ NeedsFetch(token) /\ CanAcquire(lockOwner, "cli")
    /\ cmd' = Ended([cmd EXCEPT !.nfetch = @ + 1], NoToken, 1)
    /\ UNCHANGED nruns
    /\ UNCHANGED <<provVars, thrVars, validVars, poolVars, storeVars, miscVars>>

\* The write-back: save_token(auth_host, client_id, token) if the cache is used,
\* the token was fetched and there is a client id; then the command prints the
\* access token, or sends its request with the session.  wr tells whether
\* set_password works.
CmdSave(wr) ==
    /\ cmd.st = "save"
    /\ LET wanted == /\ UsesCache(cmd.no_cache) /\ cmd.cid = "id"
                     /\ WritesBack(cmd.name, cmd.had_token)
           out == keyring_save(keyringState, keyringStore[cmd.key], token, wr)
           c == [cmd EXCEPT !.saved = wanted,
                            !.wrok = (wanted /\ keyring_usable(keyringState)
                                         /\ wr = "ok"),
                            !.writes = IF wanted /\ keyring_usable(keyringState)
                                       THEN @ + 1 ELSE @]
       IN  /\ keyringStore' = IF wanted
                              THEN [keyringStore EXCEPT ![cmd.key] = out.text]
                              ELSE keyringStore
           /\ cmd' = IF wanted /\ out.raised THEN Ended(c, NoToken, 1)
                     ELSE Ended(c, token, 0)
    /\ UNCHANGED nruns
    /\ UNCHANGED <<fileDoc, keyringState, cacheBackend, cacheMode, cop, hist, nops>>
    /\ UNCHANGED <<provVars, thrVars, validVars, poolVars, miscVars>>

\* The process exits.
CmdExit ==
    /\ cmd.st = "done"
    /\ cmd' = NoCmd
    /\ UNCHANGED nruns
    /\ UNCHANGED <<provVars, thrVars, validVars, poolVars, storeVars, miscVars>>

-----------------------------------------------------------------------------
(* _FixedSession.refresh_token *)

MaxRefreshes == 2

AuthlibErrors == {"invalid_token", "invalid_grant", "server_error"}
HttpStatuses == {400, 401, 403, 500, 503}
\* What the body of the failed refresh response holds: a JSON object whose
\* "error" is the named code, a JSON object without "error", text that is not
\* JSON, or JSON that is not an object.
ErrorBodies == {"invalid_token", "access_denied", "no_error", "not_json", "not_object"}

\* The outcomes of OAuth2Session.refresh_token.
RefreshOutcomes ==
    {[kind |-> "ok", error |-> "", status |-> 0, body |-> ""]}
    \cup {[kind |-> "authlib", error |-> e, status |-> 0, body |-> ""] : e \in AuthlibErrors}
    \cup {[kind |-> "http", error |-> "", status |-> s, body |-> b] :
             s \in HttpStatuses, b \in ErrorBodies}

FetchOutcomes == {"ok", "error"}

NoRefresh == [st |-> "idle", kind |-> "", error |-> "", status |-> 0, body |-> "",
              nfetch |-> 0, fetch |-> "", raised |-> "", ncalls |-> 0]

\* e.response.json(): the exception it raises, or "" when it decodes.
json_raises(body) ==
    CASE body = "not_json" -> "JSONDecodeError"
      [] body = "not_object" -> "AttributeError"
      [] OTHER -> ""

\* e.response.json().get("error") of a body that decodes to an object.
json_get_error(body) == IF body = "no_error" THEN "None" ELSE body

\* The exception class of a failed refresh.
ErrorOf(kind) == IF kind = "authlib" THEN "AuthlibBaseError" ELSE "HTTPError"

\* except AuthlibBaseError: e.error == "invalid_token"
AuthlibInvalidToken == rf.kind = "authlib" /\ rf.error = "invalid_token"

\* except HTTPError: the status is tested first, the body is decoded only for
\* a 401.
HttpDecodes == rf.kind = "http" /\ rf.status = 401

HttpInvalidToken ==
    /\ HttpDecodes
    /\ json_raises(rf.body) = ""
    /\ json_get_error(rf.body) = "invalid_token"

\* super().refresh_token(url, **kwargs) returns or raises.
RefreshCall(o) ==
    /\ rf.st = "idle"
    /\ rf.ncalls < MaxRefreshes
    /\ rf' = [NoRefresh EXCEPT !.st = "called", !.kind = o.kind, !.error = o.error,
                               !.status = o.status, !.body = o.body,
                               !.ncalls = rf.ncalls + 1]
    /\ UNCHANGED <<provVars, thrVars, validVars, poolVars, storeVars, cliVars>>
    /\ UNCHANGED <<sx, ax, ky>>

\* The refresh succeeded: nothing is caught.
RefreshReturn ==
    /\ rf.st = "called"
    /\ rf.kind = "ok"
    /\ rf' = [rf EXCEPT !.st = "done"]
    /\ UNCHANGED <<provVars, thrVars, validVars, poolVars, storeVars, cliVars>>
    /\ UNCHANGED <<sx, ax, ky>>

\* return self.fetch_token(): its result or its error is the caller's.
RefreshFetch(f) ==
    /\ rf.st = "called"
    /\ AuthlibInvalidToken \/ HttpInvalidToken
    /\ rf' = [rf EXCEPT !.st = "done", !.nfetch = rf.nfetch + 1, !.fetch = f,
                        !.raised = IF f = "error" THEN "FetchError" ELSE ""]
    /\ UNCHANGED <<provVars, thrVars, validVars, poolVars, storeVars, cliVars>>
    /\ UNCHANGED <<sx, ax, ky>>

\* Decoding the body of a 401 raises inside the handler: that exception
\* replaces the HTTPError.
RefreshDecodeFails ==
    /\ rf.st = "called"
    /\ HttpDecodes
    /\ json_raises(rf.body) # ""
    /\ rf' = [rf EXCEPT !.st = "done", !.raised = json_raises(rf.body)]
    /\ UNCHANGED <<provVars, thrVars, validVars, poolVars, storeVars, cliVars>>
    /\ UNCHANGED <<sx, ax, ky>>

\* raise: the caught error goes on to the caller.
RefreshReraise ==
    /\ rf.st = "called"
    /\ rf.kind # "ok"
    /\ ~AuthlibInvalidToken
    /\ ~HttpInvalidToken
    /\ ~(HttpDecodes /\ json_raises(rf.body) # "")
    /\ rf' = [rf EXCEPT !.st = "done", !.raised = ErrorOf(rf.kind)]
    /\ UNCHANGED <<provVars, thrVars, validVars, poolVars, storeVars, cliVars>>
    /\ UNCHANGED <<sx, ax, ky>>

\* The caller is back; the session may be asked to refresh again.
RefreshDone ==
    /\ rf.st = "done"
    /\ rf' = [NoRefresh EXCEPT !.ncalls = rf.ncalls]
    /\ UNCHANGED <<provVars, thrVars, validVars, poolVars, storeVars, cliVars>>
    /\ UNCHANGED <<sx, ax, ky>>

-----------------------------------------------------------------------------
(* BaseApiClient.session read by several threads *)

MaxReads == 2

Readers == {"r1", "r2", "r3"}
NoSession == 0
\* _get_shared_provider returns a provider or raises (credentials that cannot
\* be read make RequestsAuthSession raise).
LookupResults == {"ok", "raises"}

NoSx == [st |-> "none", explicit |-> FALSE, session |-> NoSession,
         lock |-> NoOwner,
         pc |-> [r \in Readers |-> "idle"],
         got |-> [r \in Readers |-> NoSession],
         reads |-> [r \in Readers |-> 0],
         lookups |-> 0, creates |-> 0, fails |-> 0]

\* A property that builds a session without looking again under the lock.
SessionMissingAssumed(session) == TRUE

\* The second `if self._session is None:`, under the lock.
SessionMissing(session) == session = NoSession

\* BaseApiClient(...): no session, a lock of its own.
SxInit(x) ==
    /\ sx.st = "none"
    /\ sx' = [NoSx EXCEPT !.st = "new", !.explicit = x]
    /\ UNCHANGED <<provVars, thrVars, validVars, poolVars, storeVars, cliVars>>
    /\ UNCHANGED <<rf, ax, ky>>

\* `if self._session is None:` outside the lock: a session that exists is
\* returned.
SxCheck(r) ==
    /\ sx.st = "new"
    /\ sx.pc[r] = "idle"
    /\ sx.reads[r] < MaxReads
    /\ sx' = [sx EXCEPT !.reads[r] = @ + 1,
                        !.pc[r] = IF sx.session = NoSession THEN "wait" ELSE "done",
                        !.got[r] = sx.session]
    /\ UNCHANGED <<provVars, thrVars, validVars, poolVars, storeVars, cliVars>>
    /\ UNCHANGED <<rf, ax, ky>>

\* `with self._lock:` acquired.
SxLock(r) ==
    /\ sx.pc[r] = "wait"
    /\ sx.lock = NoOwner
    /\ sx' = [sx EXCEPT !.lock = r, !.pc[r] = "locked"]
    /\ UNCHANGED <<provVars, thrVars, validVars, poolVars, storeVars, cliVars>>
    /\ UNCHANGED <<rf, ax, ky>>

\* Under the lock, a session that another thread stored meanwhile is returned.
SxFound(r) ==
    /\ sx.pc[r] = "locked"
    /\ ~SessionMissing(sx.session)
    /\ sx' = [sx EXCEPT !.lock = NoOwner, !.pc[r] = "done", !.got[r] = sx.session]
    /\ UNCHANGED <<provVars, thrVars, validVars, poolVars, storeVars, cliVars>>
    /\ UNCHANGED <<rf, ax, ky>>

\* Under the lock, with no session: the provider is the explicit one or is
\* looked up, create_session builds the session, it is stored and returned.  A
\* lookup that raises leaves the property with the lock released and nothing
\* stored.
SxBuild(r, res) ==
    /\ sx.pc[r] = "locked"
    /\ SessionMissing(sx.session)
    /\ sx.explicit => res = "ok"
    /\ IF res = "ok"
       THEN sx' = [sx EXCEPT !.lock = NoOwner, !.pc[r] = "done",
                             !.lookups = IF sx.explicit THEN @ ELSE @ + 1,
                             !.creates = @ + 1,
                             !.session = sx.creates + 1,
                             !.got[r] = sx.creates + 1]
       ELSE sx' = [sx EXCEPT !.lock = NoOwner, !.pc[r] = "raised",
                             !.lookups = @ + 1, !.fails = @ + 1]
    /\ UNCHANGED <<provVars, thrVars, validVars, poolVars, storeVars, cliVars>>
    /\ UNCHANGED <<rf, ax, ky>>

\* The reader has its answer and may read the property again.
SxReturn(r) ==
    /\ sx.pc[r] \in {"done", "raised"}
    /\ sx.reads[r] < MaxReads
    /\ sx' = [sx EXCEPT !.pc[r] = "idle"]
    /\ UNCHANGED <<provVars, thrVars, validVars, poolVars, storeVars, cliVars>>
    /\ UNCHANGED <<rf, ax, ky>>

-----------------------------------------------------------------------------
(* BaseAsyncApiClient: the request wrapper and its retry loop *)

MaxRequests == 2

\* `call_with_simple_retry(3)`
RetryAttempts == 3

AsyncStatuses == {200, 404, 500, 502, 503, 504}

NoAsync == [st |-> "idle", attempts |-> 0, sent |-> <<>>, sleeps |-> 0,
            sunset |-> FALSE, raised |-> "", nreq |-> 0]

\* A loop that retries every server error.
RetryStatusAnyServerError(s) == s >= 500

\* `resp.status_code in (502, 503, 504)`
RetryStatus(s) == s \in {502, 503, 504}

\* request(method, url, **kwargs): a url that starts with "/" raises ValueError
\* before anything is sent; otherwise call_with_simple_retry(3) begins.
AxRequest(slash) ==
    /\ ax.st = "idle"
    /\ ax.nreq < MaxRequests
    /\ ax' = IF slash
             THEN [NoAsync EXCEPT !.st = "raised", !.raised = "ValueError",
                                  !.nreq = ax.nreq + 1]
             ELSE [NoAsync EXCEPT !.st = "calling", !.attempts = RetryAttempts,
                                  !.nreq = ax.nreq + 1]
    /\ UNCHANGED <<provVars, thrVars, validVars, poolVars, storeVars, cliVars>>
    /\ UNCHANGED <<rf, sx, ky>>

\* call_with_simple_retry(attempts): `resp = await client_request(...)` is
\* answered with status s.  With no attempt left the response is returned; a
\* 502, 503 or 504 is followed by a sleep and call_with_simple_retry(attempts -
\* 1); any other response is returned.
AxSend(s) ==
    /\ ax.st = "calling"
    /\ ax' = IF ax.attempts = 0 \/ ~RetryStatus(s)
             THEN [ax EXCEPT !.sent = Append(@, s), !.st = "returned"]
             ELSE [ax EXCEPT !.sent = Append(@, s), !.sleeps = @ + 1,
                             !.attempts = @ - 1]
    /\ UNCHANGED <<provVars, thrVars, validVars, poolVars, storeVars, cliVars>>
    /\ UNCHANGED <<rf, sx, ky>>

\* client_request raises (no response): the error leaves request.
AxSendRaises ==
    /\ ax.st = "calling"
    /\ ax' = [ax EXCEPT !.st = "raised", !.raised = "TransportError"]
    /\ UNCHANGED <<provVars, thrVars, validVars, poolVars, storeVars, cliVars>>
    /\ UNCHANGED <<rf, sx, ky>>

\* handle_sunset(resp); _handle_http_error(resp); return resp
AxHandle ==
    /\ ax.st = "returned"
    /\ ax' = [ax EXCEPT !.st = "done", !.sunset = TRUE,
                        !.raised = IF ax.sent[Len(ax.sent)] >= 400
                                   THEN "HTTPStatusError" ELSE ""]
    /\ UNCHANGED <<provVars, thrVars, validVars, poolVars, storeVars, cliVars>>
    /\ UNCHANGED <<rf, sx, ky>>

\* The caller has its response or its error; the client may be used again.
AxDone ==
    /\ ax.st \in {"done", "raised"}
    /\ ax' = [NoAsync EXCEPT !.nreq = ax.nreq]
    /\ UNCHANGED <<provVars, thrVars, validVars, poolVars, storeVars, cliVars>>
    /\ UNCHANGED <<rf, sx, ky>>

-----------------------------------------------------------------------------
(* make_key and the entries of several identities in one cache document *)

MaxKeyOps == 3

\* Identities (auth_server, client_id), as sequences of characters: a plain
\* one, one whose auth_server contains ":" and one whose client_id does.
KeyIdentities ==
    {<< <<"h">>, <<"a">> >>,
     << <<"h", ":", "p">>, <<"a">> >>,
     << <<"h">>, <<"p", ":", "a">> >>}

\* Token values; NoEntry is what a load that finds nothing returns.
KeyTokens == {1, 2}
NoEntry == 0

NoKeys == [st |-> "idle", doc |-> <<>>,
           want |-> [i \in KeyIdentities |-> NoEntry],
           used |-> {}, id |-> << <<>>, <<>> >>, res |-> NoEntry, nops |-> 0]

\* save(auth_server, client_id, token): `data[make_key(...)] = token`
KySave(i, v) ==
    /\ ky.nops < MaxKeyOps
    /\ ky' = [ky EXCEPT !.st = "saved", !.nops = @ + 1, !.id = i,
                        !.doc = dict_set(@, make_key(i[1], i[2]), v),
                        !.want[i] = v, !.used = @ \cup {i}]
    /\ UNCHANGED <<provVars, thrVars, validVars, poolVars, storeVars, cliVars>>
    /\ UNCHANGED <<rf, sx, ax>>

\* clear(auth_server, client_id): `del data[make_key(...)]` when it is there
KyClear(i) ==
    /\ ky.nops < MaxKeyOps
    /\ ky' = [ky EXCEPT !.st = "cleared", !.nops = @ + 1, !.id = i,
                        !.doc = dict_del(@, make_key(i[1], i[2])),
                        !.want[i] = NoEntry, !.used = @ \cup {i}]
    /\ UNCHANGED <<provVars, thrVars, validVars, poolVars, storeVars, cliVars>>
    /\ UNCHANGED <<rf, sx, ax>>

\* load(auth_server, client_id): `data.get(make_key(...))`
KyLoad(i) ==
    /\ ky.st # "loaded"
    /\ ky' = [ky EXCEPT !.st = "loaded", !.id = i,
                        !.res = Field(ky.doc, make_key(i[1], i[2]), NoEntry)]
    /\ UNCHANGED <<provVars, thrVars, validVars, poolVars, storeVars, cliVars>>
    /\ UNCHANGED <<rf, sx, ax>>

-----------------------------------------------------------------------------
(* The state of the parts that a specification leaves alone *)


MiscAtRest ==
    /\ rf = NoRefresh
    /\ sx = NoSx
    /\ ax = NoAsync
    /\ ky = NoKeys

-----------------------------------------------------------------------------
(* The provider and its callers *)

NoResult == [done |-> FALSE, tok |-> NoToken]

InitProvider ==
    /\ token = NoToken
    /\ lockOwner = NoOwner
    /\ now = 0
    /\ fetches = 0
    /\ cache \in {NoToken} \cup CachedTokens
    /\ used = FALSE
    /\ invalidated = {}
    /\ pc = [t \in Threads |-> "idle"]
    /\ op = [t \in Threads |-> "none"]
    /\ ret = [t \in Threads |-> "done"]
    /\ got = [t \in Threads |-> NoGot]
    /\ snap = [t \in Threads |-> {}]
    /\ prevInval = [t \in Threads |-> -1]
    /\ callInval = [t \in Threads |-> -1]
    /\ req = [t \in Threads |-> NoReq]

Init ==
    /\ InitProvider
    /\ vNow = 0 /\ vTok = NoToken /\ vRes = NoResult /\ vBackend = "none"
    /\ PoolAtRest
    /\ StoreAtRest
    /\ CliAtRest
    /\ MiscAtRest

ProviderOps ==
    \/ \E t \in Threads : StartEnsure(t)
    \/ \E t \in Threads : SessionHit(t)
    \/ \E t \in Threads : SessionMiss(t)
    \/ \E t \in Threads : SessionLock(t)
    \/ \E t \in Threads : FetchFail(t)
    \/ \E t \in Threads : StartInvalidate(t)
    \/ \E t \in Threads : Finish(t)

\* The provider used from several threads, with a persistent cache and a clock.
Next ==
    \/ Tick
    \/ CliInject
    \/ ProviderOps
    \/ \E t \in Threads, ttl \in ExpiresIn : FetchOk(t, ttl)

Spec == Init /\ [][Next]_vars

\* Requests sent through sessions of create_session that share the provider.
InitAuth ==
    /\ Init
    /\ cache = NoToken

NextAuth ==
    \/ ProviderOps
    \/ \E t \in Threads, ttl \in LongLived : FetchOk(t, ttl)
    \/ \E t \in Threads : StartRequest(t)
    \/ \E t \in Threads : AuthCall(t)
    \/ \E t \in Threads, s \in Statuses : Send1(t, s)
    \/ \E t \in Threads : HandlePass(t)
    \/ \E t \in Threads : HandleRetry(t)
    \/ \E t \in Threads, s \in Statuses : RetrySend(t, s)
    \/ \E t \in Threads : CheckResponse(t)

SpecAuth == InitAuth /\ [][NextAuth]_vars

-----------------------------------------------------------------------------
(* The cache backends' load on one stored entry *)

\* Stored entries: none, one without "expires_at", and one per expiry time.
StoredEntries ==
    {NoToken, [id |-> 0, has |-> FALSE, expires_at |-> 0]}
        \cup {[id |-> 0, has |-> TRUE, expires_at |-> e] :
                e \in 0..(EXPIRY_MARGIN_SECONDS + MaxNow + 2)}

InitValid ==
    /\ InitProvider
    /\ cache = NoToken
    /\ vNow \in 0..MaxNow
    /\ vTok \in StoredEntries
    /\ vRes = NoResult
    /\ vBackend = "none"
    /\ PoolAtRest
    /\ StoreAtRest
    /\ CliAtRest
    /\ MiscAtRest

\* FileTokenCache.load
FileLoad ==
    /\ ~vRes.done
    /\ vRes' = [done |-> TRUE, tok |-> cache_load(vTok, vNow)]
    /\ vBackend' = "file"
    /\ UNCHANGED <<provVars, thrVars, poolVars, storeVars, cliVars, miscVars, vNow, vTok>>

\* KeyringTokenCache.load
KeyringLoad ==
    /\ ~vRes.done
    /\ vRes' = [done |-> TRUE, tok |-> cache_load(vTok, vNow)]
    /\ vBackend' = "keyring"
    /\ UNCHANGED <<provVars, thrVars, poolVars, storeVars, cliVars, miscVars, vNow, vTok>>

\* load_cached_token of the CLI
CliLoad ==
    /\ ~vRes.done
    /\ vRes' = [done |-> TRUE, tok |-> load_cached_token(vTok, vNow)]
    /\ vBackend' = "cli"
    /\ UNCHANGED <<provVars, thrVars, poolVars, storeVars, cliVars, miscVars, vNow, vTok>>

NextValid == FileLoad \/ KeyringLoad \/ CliLoad

SpecValid == InitValid /\ [][NextValid]_vars

-----------------------------------------------------------------------------
(* Clients that obtain their provider through BaseApiClient.session *)

InitPool ==
    /\ Init
    /\ cache = NoToken

\* The lookups of the pool by clients that come and go.
NextPool ==
    \/ \E c \in Clients, cfg \in ClientConfigs :
          ClientInit(c, cfg, FALSE, "NoneType")
    \/ \E c \in Clients, x \in BOOLEAN, kind \in CacheKinds :
          ClientInit(c, BaseConfig, x, kind)
    \/ \E c \in Clients : SessionExplicit(c)
    \/ \E c \in Clients : ResolveCredentials(c)
    \/ \E c \in Clients : PoolLock(c)
    \/ \E c \in Clients : PoolGet(c)
    \/ \E c \in Clients : PoolPut(c)
    \/ \E c \in Clients : CreateSession(c)
    \/ \E c \in Clients : ClientDrop(c)
    \/ \E p \in ProviderIds : Collect(p)

SpecPool == InitPool /\ [][NextPool]_vars

\* The same clients, sending requests through their sessions.
NextClients ==
    \/ NextPool
    \/ \E c \in Clients : ClientRequest(c)
    \/ \E c \in Clients : ClientTokenHit(c)
    \/ \E c \in Clients : ClientTokenMiss(c)
    \/ \E c \in Clients : ClientTokenLock(c)
    \/ \E c \in Clients, ok \in BOOLEAN : ClientTokenFetched(c, ok)

SpecClients == InitPool /\ [][NextClients]_vars

-----------------------------------------------------------------------------
(* Processes that share a token cache *)

\* What the store may hold when the processes start: nothing, something
\* undecodable, JSON of the wrong shape, or an entry left by an earlier run.
InitialFiles ==
    {MissingFile, GarbageText, json_dumps(ListValue), json_dumps(EmptyDict)}
        \cup {json_dumps([t |-> "dict", pairs |-> << <<k, v>> >>]) :
                k \in CacheKeys, v \in {ListValue, TokenValue([id |-> 0, has |-> TRUE, expires_at |-> 3600])}}
InitialTexts ==
    {NoText, GarbageText, json_dumps(ListValue),
     json_dumps(TokenValue([id |-> 0, has |-> TRUE, expires_at |-> 3600]))}

InitCache ==
    /\ InitProvider /\ cache = NoToken
    /\ vNow = 0 /\ vTok = NoToken /\ vRes = NoResult /\ vBackend = "none"
    /\ PoolAtRest
    /\ cacheBackend \in Backends
    /\ cacheMode = cacheBackend
    /\ fileDoc \in (IF cacheBackend = "file" THEN InitialFiles ELSE {MissingFile})
    /\ keyringState \in (IF cacheBackend = "file" THEN {"usable"}
                          ELSE {"usable", "fail", "absent"})
    /\ keyringStore \in (IF cacheBackend = "file" \/ keyringState # "usable"
                          THEN {[k \in CacheKeys |-> NoText]}
                          ELSE {[k \in CacheKeys |-> IF k = k0 THEN x ELSE NoText] :
                                  k0 \in CacheKeys, x \in InitialTexts})
    /\ cop = [p \in Procs |-> NoCacheOp]
    /\ hist = [k \in CacheKeys |-> NoHist]
    /\ nops = 0
    /\ CliAtRest
    /\ MiscAtRest

NextCache ==
    \/ Tick
    \/ \E p \in Procs, i \in CacheIdentities, rd \in IoResults : FileCacheLoad(p, i, rd)
    \/ \E p \in Procs, i \in CacheIdentities, rd \in IoResults : KeyringCacheLoad(p, i, rd)
    \/ \E p \in Procs, i \in CacheIdentities, rd \in IoResults : CliCacheLoad(p, i, rd)
    \/ \E p \in Procs, i \in CacheIdentities, tok \in SaveTokens, rd \in IoResults :
          FileCacheSaveRead(p, i, tok, rd)
    \/ \E p \in Procs, wr \in IoResults : FileCacheSaveWrite(p, wr)
    \/ \E p \in Procs, i \in CacheIdentities, tok \in SaveTokens, wr \in IoResults :
          KeyringCacheSave(p, i, tok, wr)
    \/ \E p \in Procs, i \in CacheIdentities, tok \in SaveTokens, wr \in IoResults :
          CliCacheSave(p, i, tok, wr)
    \/ \E p \in Procs : CacheReturn(p)

SpecCache == InitCache /\ [][NextCache]_vars

-----------------------------------------------------------------------------
(* An application that constructs its cache and reads, writes and clears it *)

\* The application is a CLI command, which uses the functions of
\* cli/token_cache.py, or a library user, which calls make_cache.  The file or
\* the keyring may hold something from an earlier run.  Each process runs one
\* cache operation.
InitStore ==
    /\ InitProvider /\ cache = NoToken
    /\ vNow = 0 /\ vTok = NoToken /\ vRes = NoResult /\ vBackend = "none"
    /\ PoolAtRest
    /\ cacheBackend \in {"unset", "cli"}
    /\ cacheMode = cacheBackend
    /\ keyringState \in {"usable", "fail", "absent"}
    /\ \/ /\ fileDoc \in InitialFiles
          /\ keyringStore = [k \in CacheKeys |-> NoText]
       \/ /\ fileDoc = MissingFile
          /\ keyringState = "usable"
          /\ keyringStore \in {[k \in CacheKeys |-> IF k = k0 THEN x ELSE NoText] :
                                  k0 \in CacheKeys, x \in InitialTexts}
    /\ cop = [p \in Procs |-> NoCacheOp]
    /\ hist = [k \in CacheKeys |-> NoHist]
    /\ nops = 0
    /\ CliAtRest
    /\ MiscAtRest

NextStore ==
    \/ \E mode \in Modes : MakeCache(mode)
    \/ \E p \in Procs, i \in CacheIdentities, rd \in IoResults : FileCacheLoad(p, i, rd)
    \/ \E p \in Procs, i \in CacheIdentities, rd \in IoResults : KeyringCacheLoad(p, i, rd)
    \/ \E p \in Procs, i \in CacheIdentities, rd \in IoResults : CliCacheLoad(p, i, rd)
    \/ \E p \in Procs, i \in CacheIdentities, tok \in SaveTokens, rd \in IoResults :
          FileCacheSaveRead(p, i, tok, rd)
    \/ \E p \in Procs, wr \in WriteResults : FileCacheSaveWrite(p, wr)
    \/ \E p \in Procs, i \in CacheIdentities, tok \in SaveTokens, wr \in IoResults :
          KeyringCacheSave(p, i, tok, wr)
    \/ \E p \in Procs, i \in CacheIdentities, tok \in SaveTokens, wr \in IoResults :
          CliCacheSave(p, i, tok, wr)
    \/ \E p \in Procs, i \in CacheIdentities, rd \in IoResults : FileCacheClearRead(p, i, rd)
    \/ \E p \in Procs, wr \in WriteResults : FileCacheClearWrite(p, wr)
    \/ \E p \in Procs, i \in CacheIdentities, wr \in IoResults : KeyringCacheClear(p, i, wr)
    \/ \E p \in Procs, i \in CacheIdentities, wr \in IoResults : CliCacheClear(p, i, wr)

SpecStore == InitStore /\ [][NextStore]_vars

-----------------------------------------------------------------------------
(* CLI commands run one after another on a machine with a keyring *)

InitCli ==
    /\ InitProvider /\ cache = NoToken
    /\ vNow = 0 /\ vTok = NoToken /\ vRes = NoResult /\ vBackend = "none"
    /\ PoolAtRest
    /\ fileDoc = MissingFile
    /\ cacheBackend = "cli" /\ cacheMode = "cli"
    /\ keyringState \in {"usable", "fail", "absent"}
    /\ keyringStore \in (IF keyringState # "usable"
                          THEN {[k \in CacheKeys |-> NoText]}
                          ELSE {[k \in CacheKeys |-> IF k = k0 THEN x ELSE NoText] :
                                  k0 \in CacheKeys, x \in InitialTexts})
    /\ cop = [p \in Procs |-> NoCacheOp]
    /\ hist = [k \in CacheKeys |-> NoHist]
    /\ nops = 0
    /\ CliAtRest
    /\ MiscAtRest

NextCli ==
    \/ Tick
    \/ \E name \in Commands, no_cache \in BOOLEAN, i \in CacheIdentities,
          res \in Resolutions : CmdStart(name, no_cache, i, res)
    \/ CmdSkipLoad
    \/ \E rd \in IoResults : CmdLoad(rd)
    \/ CmdSessionHit
    \/ \E ttl \in ExpiresIn : CmdFetchOk(ttl)
    \/ CmdFetchFail
    \/ \E wr \in IoResults : CmdSave(wr)
    \/ CmdExit

SpecCli == InitCli /\ [][NextCli]_vars

\* A session that is asked to refresh its token; everything else is at rest.
NextRefresh ==
    \/ \E o \in RefreshOutcomes : RefreshCall(o)
    \/ RefreshReturn
    \/ \E f \in FetchOutcomes : RefreshFetch(f)
    \/ RefreshDecodeFails
    \/ RefreshReraise
    \/ RefreshDone

SpecRefresh == InitAuth /\ [][NextRefresh]_vars

\* One BaseApiClient whose session is read by several threads.
NextSession ==
    \/ \E x \in BOOLEAN : SxInit(x)
    \/ \E r \in Readers : SxCheck(r)
    \/ \E r \in Readers : SxLock(r)
    \/ \E r \in Readers : SxFound(r)
    \/ \E r \in Readers, res \in LookupResults : SxBuild(r, res)
    \/ \E r \in Readers : SxReturn(r)

SpecSession == InitAuth /\ [][NextSession]_vars

\* Requests through one BaseAsyncApiClient.
NextAsync ==
    \/ \E slash \in BOOLEAN : AxRequest(slash)
    \/ \E s \in AsyncStatuses : AxSend(s)
    \/ AxSendRaises
    \/ AxHandle
    \/ AxDone

SpecAsync == InitAuth /\ [][NextAsync]_vars

\* Saves, clears and loads of several identities on one cache document.
NextKeys ==
    \/ \E i \in KeyIdentities, v \in KeyTokens : KySave(i, v)
    \/ \E i \in KeyIdentities : KyClear(i)
    \/ \E i \in KeyIdentities : KyLoad(i)

SpecKeys == InitAuth /\ [][NextKeys]_vars

-----------------------------------------------------------------------------
(* Properties of the provider (Spec) *)

Fetching == {t \in Threads : pc[t] = "s_fetching"}
Returned(t) == got[t] # NoGot

\* C1: threads that concurrently ask a provider holding no token cause exactly
\* one network fetch in total, and every caller obtains the token of that fetch
\* (stated for the runs in which no held token was invalidated).
C1_SingleFetch ==
    invalidated = {} =>
        /\ fetches <= 1
        /\ \A t \in Threads : (Returned(t) /\ fetches >= 1) => got[t].tok.id = 1

\* C2: at most one network fetch is in progress on the provider, and a fetch
\* in progress is run by the thread that holds the provider's lock.
C2_OneFetchInProgress ==
    /\ Cardinality(Fetching) <= 1
    /\ \A t \in Threads : pc[t] = "s_fetching" => lockOwner = t
    /\ lockOwner # NoOwner => pc[lockOwner] = "s_fetching"

\* C2 witness: one thread is fetching under the lock while another waits for it.
C2_Witness ==
    \E a, b \in Threads :
        a # b /\ pc[a] = "s_fetching" /\ lockOwner = a /\ pc[b] = "s_lock"

\* C7: every token the provider returns is, at the moment it is returned, more
\* than the expiry margin away from its expiry.
C7_ReturnedTokenValid ==
    \A t \in Threads :
        Returned(t) => got[t].at < got[t].tok.expires_at - EXPIRY_MARGIN_SECONDS

\* C9: a token acquisition that follows the caller's own invalidate_token()
\* returns a token produced by a fetch made after that invalidation.
C9_InvalidateThenEnsureFetches ==
    \A t \in Threads :
        (Returned(t) /\ callInval[t] >= 0) => got[t].tok.id > callInval[t]

\* C9 witness: the invalidated token was fetched and unexpired, the persistent
\* cache still holds an unexpired entry, and the acquisition has returned.
C9_Witness ==
    \E t \in Threads :
        /\ Returned(t) /\ callInval[t] >= 1
        /\ <<callInval[t], t>> \in invalidated
        /\ now = 0
        /\ load_cached_token(cache, now) # NoToken

\* C10: an acquisition never returns a token that an invalidate_token() call,
\* completed before the acquisition began, had cleared.
C10_NoStaleAfterInvalidate ==
    \A t \in Threads : Returned(t) => got[t].tok.id \notin snap[t]

\* C10 witness: thread b's acquisition began after thread a invalidated a held
\* token, and has returned.
C10_Witness ==
    \E a, b \in Threads :
        /\ a # b /\ Returned(b) /\ op[b] = "ensure"
        /\ \E p \in invalidated : p[2] = a /\ p[1] \in snap[b]

\* C11: invalidate_token() raises nothing and leaves the provider holding no
\* token, whether or not a token was held; on a provider that holds none (never
\* fetched, or just invalidated) it changes nothing of the provider but,
\* optionally, the persisted entry it clears: a second call in a row leaves the
\* state of a single call.
C11_InvalidateIdempotent ==
    [][\A t \in Threads :
          (op[t] # "invalidate" /\ op'[t] = "invalidate") =>
              /\ req'[t].outcome = "ok"
              /\ token' = NoToken
              /\ lockOwner' = lockOwner /\ fetches' = fetches
              /\ token = NoToken =>
                    (invalidated' = invalidated /\ cache' \in {cache, NoToken})]_vars

\* C11 witness: two invalidate_token() calls in a row on a provider that never
\* fetched nor held a token, both ended without error.
C11_Witness ==
    \E a, b \in Threads :
        /\ a # b /\ fetches = 0 /\ invalidated = {} /\ token = NoToken
        /\ op[a] = "invalidate" /\ pc[a] = "done" /\ req[a].outcome = "ok"
        /\ op[b] = "invalidate" /\ pc[b] = "done" /\ req[b].outcome = "ok"

-----------------------------------------------------------------------------
(* Properties of the interceptor (SpecAuth) *)

RECURSIVE Count(_, _)
Count(seq, x) ==
    IF seq = <<>> THEN 0
    ELSE (IF Head(seq) = x THEN 1 ELSE 0) + Count(Tail(seq), x)

\* Indices of x in seq.
Places(seq, x) == {i \in 1..Len(seq) : seq[i] = x}

\* The 401 handler has returned a response for the request of t.
HandlerReturned(t) == op[t] = "request" /\ req[t].result # 0

\* C3: a request is transmitted at most twice; when its first response is 401
\* and the handler returns, it was resent exactly once, invalidate_token() ran
\* exactly once, after the first transmission and before the resend, and the
\* response of the resend is what is returned, whatever its status.  (When the
\* token cannot be acquired again the error ends the request, not resent.)
C3_RetryExactlyOnce ==
    \A t \in Threads :
        /\ req[t].tx <= 2
        /\ (HandlerReturned(t) /\ req[t].first = 401) =>
              /\ req[t].tx = 2
              /\ Count(req[t].log, "send") = 2
              /\ Count(req[t].log, "invalidate") = 1
              /\ \A i \in Places(req[t].log, "invalidate") :
                    /\ \E j \in Places(req[t].log, "send") : j < i
                    /\ \E j \in Places(req[t].log, "send") : i < j
              /\ req[t].result = 2
              /\ req[t].last = req[t].second
              /\ req[t].history = <<1>>
        /\ (pc[t] = "done" /\ op[t] = "request"
                /\ req[t].first = 401 /\ ~HandlerReturned(t)) =>
              /\ req[t].outcome = "AuthError"
              /\ req[t].tx = 1
              /\ Count(req[t].log, "invalidate") = 1

\* C3 witness: both transmissions were answered 401 and the handler returned.
C3_Witness ==
    \E t \in Threads :
        /\ pc[t] = "r_check" /\ HandlerReturned(t)
        /\ req[t].first = 401 /\ req[t].second = 401

\* C4: on a session of create_session, when the first attempt and the retry are
\* both answered 401, send raises HTTPError after exactly two transmissions.
C4_Second401Raises ==
    \A t \in Threads :
        (pc[t] = "done" /\ op[t] = "request"
            /\ req[t].first = 401 /\ req[t].second = 401) =>
                (req[t].outcome = "HTTPError" /\ req[t].tx = 2)

\* C4 witness: a request ended after two 401 answers.
C4_Witness ==
    \E t \in Threads :
        /\ pc[t] = "done" /\ op[t] = "request"
        /\ req[t].first = 401 /\ req[t].second = 401
        /\ req[t].outcome = "HTTPError"

\* C5: when the first response is not a 401 the handler returns that response
\* itself, untouched, and neither invalidates, nor asks for a token again, nor
\* resends.
C5_Non401PassesThrough ==
    \A t \in Threads :
        (op[t] = "request" /\ req[t].first \notin {0, 401}) =>
            /\ req[t].tx = 1
            /\ req[t].second = 0
            /\ Count(req[t].log, "invalidate") = 0
            /\ Count(req[t].log, "ensure") = 1
            /\ pc[t] \in {"r_check", "done"} =>
                  (req[t].result = 1 /\ req[t].history = <<>>)

\* C5 witness: a first response 503 was handed back by the handler.
C5_Witness ==
    \E t \in Threads :
        /\ pc[t] = "done" /\ op[t] = "request"
        /\ req[t].first = 503 /\ req[t].result = 1

\* C6: on a first-attempt 401 the token is invalidated before it is asked for
\* again, and the request resent is a copy of the original (which keeps the
\* header it was sent with) but for its Authorization header, which is
\* 'Bearer ' + the token the second acquisition returned: the first token is
\* sent again only if the provider returned it again.
C6_RetryUsesFreshToken ==
    \A t \in Threads :
        (HandlerReturned(t) /\ req[t].first = 401) =>
            /\ got[t].tok # NoToken
            /\ req[t].prep = [url |-> req[t].orig.url,
                              hooks |-> req[t].orig.hooks,
                              auth |-> <<"Bearer", got[t].tok.id>>]
            /\ req[t].sent = <<req[t].orig.auth, <<"Bearer", got[t].tok.id>> >>
            /\ \A i \in Places(req[t].log, "invalidate") :
                  /\ \E j \in Places(req[t].log, "ensure") : i < j
                  /\ req[t].log[i + 3] = "ensure"

\* C6 witness: the resend carried another token than the first attempt and was
\* answered 200.
C6_Witness ==
    \E t \in Threads :
        /\ HandlerReturned(t) /\ req[t].first = 401 /\ req[t].second = 200
        /\ req[t].orig.auth # <<>>
        /\ req[t].prep.auth # req[t].orig.auth

-----------------------------------------------------------------------------
(* Properties of the validity rule (SpecValid) *)

\* C8: a token is valid iff it has an expires_at and now < expires_at - 30,
\* strictly: expires_at = now + 29 and now + 30 are invalid, now + 31 is valid,
\* a token without expires_at is invalid; every backend's load hands out the
\* stored token exactly when it is valid, and nothing otherwise.
C8_ValidityRule ==
    /\ is_valid(vTok, vNow) <=> (vTok.has /\ vTok.expires_at - vNow >= 31)
    /\ (vTok.has /\ vTok.expires_at \in {vNow + 29, vNow + 30}) => ~is_valid(vTok, vNow)
    /\ (vTok.has /\ vTok.expires_at = vNow + 31) => is_valid(vTok, vNow)
    /\ vRes.done =>
          vRes.tok = IF vTok.has /\ vTok.expires_at - vNow >= 31 THEN vTok ELSE NoToken

\* C8 witness: a backend was asked for an entry expiring exactly at the margin
\* and gave nothing.
C8_Witness ==
    /\ vRes.done /\ vBackend = "file"
    /\ vTok.has /\ vTok.expires_at = vNow + EXPIRY_MARGIN_SECONDS
    /\ vRes.tok = NoToken

-----------------------------------------------------------------------------
(* Properties of the provider pool (SpecPool, SpecClients) *)

\* Client c holds a session whose provider came from the pool: no explicit
\* token_provider, and credentials that resolved.
Pooled(c) ==
    cl[c].session # None /\ ~cl[c].explicit /\ cl[c].auth # Unresolved

\* The providers constructed by the lookup.
Constructed == {p \in ProviderIds \ {ExplicitProvider} : prov[p].made}

\* The live providers that were constructed for key k.
LiveFor(k) == {p \in Constructed : prov[p].alive /\ prov[p].key = k}

C13_OneFetchAcrossClients ==
    \A p \in Constructed : prov[p].key # NoKey => prov[p].fetches <= 1

\* C14: for one key there is at most one live provider, the pool's entry is
\* that provider, and every lookup with that key is handed that provider,
\* however the lookups of several threads interleave.
C14_OneProviderPerKey ==
    \A k \in Keys :
        /\ Cardinality(LiveFor(k)) <= 1
        /\ provider_pool[k] # 0 => provider_pool[k] \in LiveFor(k)
        /\ \A c \in Clients :
              (cl[c].local # None /\ cl[c].auth # Unresolved
                  /\ <<cl[c].auth, cl[c].host, cl[c].ep>> = k) =>
                        (cl[c].local = provider_pool[k] /\ LiveFor(k) = {cl[c].local})

\* C14 witness: two threads are returning from a lookup with the one provider
\* constructed for their key while a third still waits for the pool lock with
\* the same key.
C14_Witness ==
    \E c1, c2, c3 \in Clients :
        /\ c1 # c2 /\ c1 # c3 /\ c2 # c3
        /\ cl[c1].st = "got" /\ cl[c2].st = "got" /\ cl[c3].st = "pool_wait"
        /\ cl[c1].local = cl[c2].local /\ cl[c1].local # None
        /\ cl[c1].auth # Unresolved
        /\ <<cl[c1].auth, cl[c1].host, cl[c1].ep>> = <<cl[c2].auth, cl[c2].host, cl[c2].ep>>
        /\ <<cl[c1].auth, cl[c1].host, cl[c1].ep>> = <<cl[c3].auth, cl[c3].host, cl[c3].ep>>
        /\ Constructed = {cl[c1].local}

\* C15 as stated: once no client (nor lookup) references a pooled provider any
\* more, the pool does not contain it.
C15_ReleasedMeansGone ==
    \A p \in Constructed :
        (prov[p].key # NoKey /\ Referrers(p) = {}) =>
            provider_pool[prov[p].key] # p

\* C15 amended: once no client references a pooled provider any more and the
\* collector has reclaimed the sessions that held it, the provider is gone from
\* the pool and is never handed out again (the next lookup with its key finds
\* no entry and constructs a provider); while a client references it, it is
\* alive and it is the pool's entry for its key.
C15_ReclaimedMeansGone ==
    \A p \in Constructed :
        prov[p].key # NoKey =>
            /\ (Referrers(p) = {} /\ p \notin garbage) =>
                  (~prov[p].alive /\ provider_pool[prov[p].key] # p)
            /\ Referrers(p) # {} =>
                  (prov[p].alive /\ provider_pool[prov[p].key] = p)
            /\ ~prov[p].alive =>
                  (Referrers(p) = {} /\ provider_pool[prov[p].key] # p)

\* C15 witness: a provider was reclaimed after its clients were dropped, and a
\* client that looked its key up afterwards holds a newly constructed one.
C15_Witness ==
    \E p, q \in Constructed, c \in Clients :
        /\ p # q /\ prov[p].key # NoKey /\ prov[q].key = prov[p].key
        /\ ~prov[p].alive /\ prov[q].alive
        /\ Pooled(c) /\ cl[c].session = q
        /\ provider_pool[prov[q].key] = q

\* C16: the kind of the token cache is part of the pool key: the key registered
\* for a client without a cache is (client_id, auth_host, token_endpoint,
\* type(None)), and two clients of one identity with caches of different kinds
\* hold distinct providers.
C16_CacheKindInKey ==
    /\ \A c \in Clients :
          (Pooled(c) /\ cl[c].kind = "NoneType") =>
              <<cl[c].auth, cl[c].host, cl[c].ep, "NoneType">>
                  \in {k \in Keys : provider_pool[k] = cl[c].session}
    /\ \A c1, c2 \in Clients :
          (Pooled(c1) /\ Pooled(c2) /\ cl[c1].kind # cl[c2].kind
              /\ <<cl[c1].auth, cl[c1].host, cl[c1].ep>>
                    = <<cl[c2].auth, cl[c2].host, cl[c2].ep>>) =>
                  cl[c1].session # cl[c2].session

\* C17: no step of a client constructed with an explicit token_provider
\* changes the pool or constructs a provider, none resolves credentials, and
\* the session it creates is on the provider it was given.
C17_ExplicitBypassesPool ==
    [][\A c \in Clients :
          ((cl[c].explicit \/ cl'[c].explicit) /\ cl'[c] # cl[c]) =>
              /\ provider_pool' = provider_pool
              /\ prov' = prov
              /\ ~cl'[c].resolved
              /\ cl'[c].local = None
              /\ cl'[c].session \in {None, ExplicitProvider}]_vars

\* C17 witness: a client given an explicit provider has its session on it,
\* while the pool holds another provider under the very identity the client was
\* constructed with.
C17_Witness ==
    \E c \in Clients :
        /\ cl[c].explicit /\ cl[c].st = "ready"
        /\ cl[c].session = ExplicitProvider /\ ~cl[c].resolved
        /\ provider_pool[<<cl[c].auth, cl[c].host, cl[c].ep>>] # 0

-----------------------------------------------------------------------------
(* Properties of the token caches (SpecCache) *)

\* Process p has finished a load.
Loaded(p) == cop[p].name = "load" /\ cop[p].st = "done"

\* Process p has finished a save.
Saved(p) == cop[p].name = "save" /\ cop[p].st = "done"

\* The token a load must give for the saved token tok at time t.
Expected(tok, t) ==
    IF tok.has /\ t < tok.expires_at - EXPIRY_MARGIN_SECONDS THEN tok ELSE NoToken

C19_LoadNeverRaises ==
    \A p \in Procs :
        Loaded(p) =>
            /\ ~cop[p].raised
            /\ cop[p].result # NoToken =>
                  /\ cop[p].rdok
                  /\ cop[p].seen.t = "dict"
                  /\ cop[p].result = AsToken(cop[p].seen)
                  /\ cop[p].result.has
                  /\ cop[p].at < cop[p].result.expires_at - EXPIRY_MARGIN_SECONDS
            /\ (cop[p].seen.t # "dict" \/ ~cop[p].rdok) => cop[p].result = NoToken

\* C19 witness: a load from a keyring whose stored value is JSON of a list
\* ended without error and gave nothing.
C19_Witness ==
    \E p \in Procs :
        /\ Loaded(p) /\ cacheBackend = "keyring" /\ keyringState = "usable"
        /\ cop[p].rdok /\ keyringStore[cop[p].key] = json_dumps(ListValue)
        /\ ~cop[p].raised /\ cop[p].result = NoToken

\* C20: save never raises to its caller, whatever the backend does.
C20_SaveNeverRaises ==
    \A p \in Procs : Saved(p) => ~cop[p].raised

\* C20 witness: the CLI's save_token on a usable keyring whose write failed
\* returned without error, the token not stored.
C20_Witness ==
    \E p \in Procs :
        /\ Saved(p) /\ cacheBackend = "cli" /\ keyringState = "usable"
        /\ ~cop[p].raised
        /\ hist[cop[p].key] = [tok |-> cop[p].tok, ok |-> FALSE]
        /\ keyringStore[cop[p].key] # json_dumps(TokenValue(cop[p].tok))

-----------------------------------------------------------------------------
(* Properties of the cache operations of one application (SpecStore) *)

\* What the store holds under key k: the decoded entry and the keyring's text.
Stored(k) == <<RawEntry(k), keyringStore[k]>>

\* The store holds nothing under key k.
Absent(k) ==
    IF cacheBackend = "file" THEN RawEntry(k) = NoValue
    ELSE keyringStore[k] = NoText

\* The step in which process p ends an operation called name.
Ends(p, name) ==
    cop'[p].name = name /\ cop'[p].st = "done" /\ cop[p].st # "done"

\* C21 as stated: a clear never raises, leaves every entry under another key
\* as it was, and with nothing under its key changes nothing and does not
\* rewrite the file.
C21_ClearFrame ==
    [][\A p \in Procs :
          Ends(p, "clear") =>
              /\ ~cop'[p].raised
              /\ \A k \in CacheKeys \ {cop'[p].key} : Stored(k)' = Stored(k)
              /\ Absent(cop'[p].key) =>
                    /\ fileDoc' = fileDoc /\ keyringStore' = keyringStore
                    /\ ~cop'[p].wrote]_vars

\* C21 amended: a clear never raises; on the keyring, and on the file when no
\* other process rewrote the file between the clear's read and its write and
\* the write does not fail after the file was truncated, it leaves every entry
\* under another key as it was, and with nothing under its key changes nothing
\* and does not rewrite the file; a write that fails after the truncation
\* leaves the file undecodable.
C21_ClearFrameInPlace ==
    [][\A p \in Procs :
          Ends(p, "clear") =>
              /\ ~cop'[p].raised
              /\ (cacheBackend # "file"
                     \/ (~cop[p].raced /\ cop'[p].wres # "torn")) =>
                    /\ \A k \in CacheKeys \ {cop'[p].key} : Stored(k)' = Stored(k)
                    /\ Absent(cop'[p].key) =>
                          /\ fileDoc' = fileDoc /\ keyringStore' = keyringStore
                          /\ ~cop'[p].wrote
              /\ cop'[p].wres = "torn" => fileDoc' = GarbageText]_vars

\* C21 witness: a clear rewrote the file without its key, and the entry another
\* process had saved under another key is still there.
C21_Witness ==
    \E p \in Procs, k \in CacheKeys :
        /\ cacheBackend = "file"
        /\ cop[p].name = "clear" /\ cop[p].st = "done" /\ ~cop[p].raised
        /\ cop[p].wrote /\ cop[p].wres = "ok" /\ ~cop[p].raced
        /\ k # cop[p].key
        /\ RawEntry(cop[p].key) = NoValue
        /\ RawEntry(k) \in {TokenValue(t) : t \in SaveTokens}

\* C22: with no usable keyring (not importable, or a backend whose type name
\* contains "fail") an operation of the keyring cache, or of the CLI's keyring
\* functions, raises nothing, calls no get/set/delete of the keyring and leaves
\* the keyring as it was; load returns null and save and clear write nothing,
\* which is what a caller without a cache has.
C22_UnusableKeyringNeverFatal ==
    \A p \in Procs :
        (/\ cacheBackend \in {"keyring", "cli"}
         /\ keyringState \in {"fail", "absent"}
         /\ cop[p].st = "done") =>
            /\ ~cop[p].raised
            /\ ~cop[p].called
            /\ ~cop[p].wrote
            /\ cop[p].result = NoToken
            /\ keyringStore = [k \in CacheKeys |-> NoText]

\* C22 witness: on a machine whose keyring backend is the failing one, one
\* process has ended a save on the keyring cache and another a load.
C22_Witness ==
    /\ cacheBackend = "keyring" /\ keyringState = "fail"
    /\ \E p, q \in Procs :
          /\ cop[p].name = "save" /\ cop[p].st = "done"
          /\ cop[q].name = "load" /\ cop[q].st = "done"

\* C23: make_cache(mode) gives no cache for "none", the file backend for
\* "file", the keyring backend for "keyring" whether or not a keyring is
\* usable, and for "auto" or any other value the keyring backend if a usable
\* keyring exists and the file backend if not.
C23_MakeCacheByMode ==
    cacheBackend \notin {"unset", "cli"} =>
        /\ cacheMode = "none" => cacheBackend = "none"
        /\ cacheMode = "file" => cacheBackend = "file"
        /\ cacheMode = "keyring" => cacheBackend = "keyring"
        /\ cacheMode \notin {"none", "file", "keyring"} =>
              /\ keyringState = "usable" => cacheBackend = "keyring"
              /\ keyringState \in {"fail", "absent"} => cacheBackend = "file"

\* C23 witness: make_cache("auto") on a machine whose keyring backend is the
\* failing one gave the file backend, which has since served a load.
C23_Witness ==
    /\ cacheMode = "auto" /\ keyringState = "fail" /\ cacheBackend = "file"
    /\ \E p \in Procs : cop[p].name = "load" /\ cop[p].st = "done"

\* C24: when a save to the file cache has ended and no other process rewrote
\* the file meanwhile, every entry the document held under another key is still
\* there with the same value, and the save's key maps to the saved token.
C24_SaveKeepsOtherKeys ==
    [][\A p \in Procs :
          (Ends(p, "save") /\ cacheBackend = "file" /\ ~cop[p].raced) =>
              /\ \A k \in CacheKeys \ {cop[p].key} :
                    RawEntry(k) # NoValue => RawEntry(k)' = RawEntry(k)
              /\ RawEntry(cop[p].key)' = TokenValue(cop[p].tok)]_vars

-----------------------------------------------------------------------------
(* Properties of the CLI commands (SpecCli) *)

\* The token the keyring held under the command's key when the command
\* started (NoToken: no entry, or none that decodes to a dict).
HeldToken ==
    IF cmd.held.kind = "json" /\ cmd.held.value.t = "dict"
    THEN AsToken(cmd.held.value)
    ELSE NoToken

\* That token was valid, under the margin, when the command looked it up.
HeldValid ==
    /\ cmd.loaded
    /\ HeldToken.has
    /\ cmd.at < HeldToken.expires_at - EXPIRY_MARGIN_SECONDS

\* The command uses the cache and its credentials give a client id.
CachingEnabled == cmd.name # "none" /\ ~cmd.no_cache /\ cmd.cid = "id"

\* C25 as stated: with caching enabled, a command that finds a valid token for
\* its identity in the keyring performs no network fetch and ends with that
\* token, and a command fetches only after its lookup missed.
C25_CacheBeforeFetch ==
    CachingEnabled =>
        /\ HeldValid =>
              /\ cmd.nfetch = 0
              /\ cmd.st = "done" => (cmd.rc = 0 /\ cmd.out = HeldToken)
        /\ cmd.nfetch > 0 => (cmd.loaded /\ cmd.cached = NoToken)

\* C25 amended: the same, for a valid token that get_password hands out (a
\* keyring whose read raises counts as a miss).
C25_CacheBeforeFetchReadable ==
    CachingEnabled =>
        /\ (HeldValid /\ cmd.rdok) =>
              /\ cmd.nfetch = 0
              /\ cmd.st = "done" => (cmd.rc = 0 /\ cmd.out = HeldToken)
        /\ cmd.nfetch > 0 => (cmd.loaded /\ cmd.cached = NoToken)

\* C25 witness: a command ended, without a fetch, with the token that an
\* earlier command had fetched and written to the keyring.
C25_Witness ==
    /\ CachingEnabled /\ HeldValid /\ cmd.rdok
    /\ cmd.st = "done" /\ cmd.rc = 0
    /\ cmd.nfetch = 0
    /\ cmd.out = HeldToken /\ HeldToken.id = 1

\* C26 as stated: when a command with caching enabled has fetched a token, the
\* keyring holds under '<auth_server>:<client_id>' exactly the token the
\* command ends with; when its fetch failed nothing was written.
C26_WriteBack ==
    (CachingEnabled /\ cmd.st = "done") =>
        /\ cmd.fetched # NoToken =>
              /\ cmd.out = cmd.fetched
              /\ keyringStore[cmd.key] = json_dumps(TokenValue(cmd.fetched))
        /\ (cmd.nfetch > 0 /\ cmd.fetched = NoToken) =>
              /\ ~cmd.saved /\ cmd.writes = 0
              /\ keyringStore[cmd.key] = cmd.held

\* C26 amended: when a command with caching enabled has fetched a token, it has
\* called save_token under '<auth_server>:<client_id>' with the token it ends
\* with; the keyring then holds exactly that token if it is usable and
\* set_password raised nothing, and what it held before if not; when the fetch
\* failed nothing was written.
C26_WriteBackBestEffort ==
    (CachingEnabled /\ cmd.st = "done") =>
        /\ cmd.fetched # NoToken =>
              /\ cmd.saved /\ cmd.rc = 0
              /\ cmd.out = cmd.fetched
              /\ keyringStore[cmd.key] =
                    IF cmd.wrok THEN json_dumps(TokenValue(cmd.fetched))
                    ELSE cmd.held
        /\ (cmd.nfetch > 0 /\ cmd.fetched = NoToken) =>
              /\ ~cmd.saved /\ cmd.writes = 0
              /\ keyringStore[cmd.key] = cmd.held

\* C26 witness: a command missed the cache, fetched a token and ended with the
\* keyring holding that token in place of the undecodable text it held before.
C26_Witness ==
    /\ CachingEnabled /\ cmd.st = "done" /\ cmd.rc = 0
    /\ cmd.loaded /\ cmd.cached = NoToken
    /\ cmd.fetched # NoToken /\ cmd.out = cmd.fetched
    /\ cmd.held = GarbageText
    /\ keyringStore[cmd.key] = json_dumps(TokenValue(cmd.fetched))

\* C27: a command run with --no-cache never calls get_password or
\* set_password and leaves the keyring as it was, and once past its `.session`
\* access it has made exactly one token exchange, whatever the keyring holds
\* for its identity.
C27_NoCacheAlwaysFetches ==
    (cmd.name # "none" /\ cmd.no_cache) =>
        /\ ~cmd.loaded /\ cmd.reads = 0
        /\ ~cmd.saved /\ cmd.writes = 0
        /\ keyringStore[cmd.key] = cmd.held
        /\ (cmd.st \in {"save", "done"} /\ cmd.cid # "raises") => cmd.nfetch = 1
        /\ (cmd.st = "done" /\ cmd.rc = 0) => cmd.out = cmd.fetched

\* C27 witness: a command run with --no-cache ended with a token it fetched
\* while the keyring held, and still holds, a valid token for its identity.
C27_Witness ==
    /\ cmd.name # "none" /\ cmd.no_cache /\ cmd.cid = "id"
    /\ cmd.st = "done" /\ cmd.rc = 0
    /\ cmd.nfetch = 1 /\ cmd.out = cmd.fetched /\ cmd.fetched # NoToken
    /\ HeldToken.has /\ now < HeldToken.expires_at - EXPIRY_MARGIN_SECONDS
    /\ keyringStore[cmd.key] = cmd.held

-----------------------------------------------------------------------------
(* Properties of a failed fetch and of the first attempt (SpecAuth) *)

\* The step in which the token exchange of t fails.
FetchFails(t) ==
    pc[t] = "s_fetching" /\ pc'[t] # "s_fetching" /\ fetches' = fetches

\* C28: a token exchange that fails releases the provider's lock and leaves
\* the provider as it was: the token it held or no token, nothing partial, the
\* same count of fetched tokens; the lock is then free for the next caller.
C28_FailedFetchReleasesLock ==
    [][\A t \in Threads :
          FetchFails(t) =>
              /\ lockOwner = t /\ lockOwner' = NoOwner
              /\ token' = token
              /\ cache' = cache /\ invalidated' = invalidated]_vars

\* C28 witness: the exchange of one caller failed, the provider holds no
\* token, and another caller has since acquired the lock and fetches.
C28_Witness ==
    \E t, u \in Threads :
        /\ t # u
        /\ pc[t] = "done" /\ req[t].outcome = "AuthError"
        /\ token = NoToken /\ fetches = 0
        /\ pc[u] = "s_fetching" /\ lockOwner = u

\* C29: a call whose token exchange fails ends there with the error: it makes
\* no second attempt, and its caller gets the error and no token.
C29_NoRetryOfFailedFetch ==
    [][\A t \in Threads :
          FetchFails(t) =>
              /\ pc'[t] = "done"
              /\ req'[t].outcome = "AuthError"
              /\ got'[t] = NoGot
              /\ op'[t] = op[t]]_vars

\* C29 witness: an ensure_token() call ended with the error of its one
\* failed exchange; nothing was fetched.
C29_Witness ==
    \E t \in Threads :
        /\ op[t] = "ensure" /\ pc[t] = "done"
        /\ req[t].outcome = "AuthError"
        /\ got[t] = NoGot /\ fetches = 0 /\ lockOwner = NoOwner

\* C30: when the auth handler has returned on the first attempt of a request,
\* ensure_token() was called once, the request carries "Bearer " and the
\* access token that call returned and the 401 handler as its one response
\* hook, and it is the request that was passed in (no copy was made); what is
\* sent first carries that header.
C30_FirstAttempt ==
    \A t \in Threads :
        /\ pc[t] = "r_send1" =>
              /\ req[t].log = <<"ensure">>
              /\ Returned(t)
              /\ req[t].orig.auth = <<"Bearer", got[t].tok.id>>
              /\ req[t].orig.hooks = <<"_handle_401">>
              /\ req[t].orig.url = "u" /\ req[t].prep = NoPrep
              /\ req[t].tx = 0
        /\ (op[t] = "request" /\ req[t].tx >= 1) =>
              /\ req[t].sent[1] = req[t].orig.auth
              /\ req[t].orig.auth[1] = "Bearer"
              /\ req[t].log[1] = "ensure" /\ req[t].log[2] = "send"

\* C30 witness: the first transmission of a request went out with the header
\* of the token that ensure_token() had fetched for it.
C30_Witness ==
    \E t \in Threads :
        /\ op[t] = "request" /\ pc[t] = "r_hook" /\ req[t].tx = 1
        /\ req[t].log = <<"ensure", "send">>
        /\ req[t].sent = << <<"Bearer", got[t].tok.id>> >>
        /\ got[t].tok.id = 1

-----------------------------------------------------------------------------
(* Properties of _FixedSession.refresh_token (SpecRefresh) *)

\* The failed refresh reported invalid_token: as an Authlib error with that
\* code, or as an HTTP 401 whose body is a JSON object with that error.
ReportsInvalidToken ==
    \/ rf.kind = "authlib" /\ rf.error = "invalid_token"
    \/ rf.kind = "http" /\ rf.status = 401 /\ rf.body = "invalid_token"

C31_RefreshRecoversDecodable ==
    (rf.st = "done" /\ rf.kind # "ok" /\ rf.fetch # "error"
       /\ ~(HttpDecodes /\ json_raises(rf.body) # "")) =>
        IF ReportsInvalidToken
        THEN rf.nfetch = 1 /\ rf.raised = ""
        ELSE rf.nfetch = 0 /\ rf.raised = ErrorOf(rf.kind)

\* C31: a refresh that failed with a 401 whose body is not JSON has ended.
C31_Witness ==
    /\ rf.st = "done"
    /\ rf.kind = "http" /\ rf.status = 401 /\ rf.body = "not_json"

-----------------------------------------------------------------------------
(* Properties of the 401 retry path (SpecAuth) *)

\* C32: the body of the 401 response is read before the retried request is
\* sent: every transmission after the first one of a request is preceded, since
\* the transmission before it, by a drain step.
C32_DrainBeforeResend ==
    \A t \in Threads :
        \A j \in Places(req[t].log, "send") :
            \A i \in Places(req[t].log, "send") :
                i < j => \E d \in Places(req[t].log, "drain") : i < d /\ d < j

\* C32: a request was answered with 401 and has been sent a second time.
C32_Witness ==
    \E t \in Threads :
        /\ req[t].first = 401
        /\ Count(req[t].log, "send") = 2
        /\ Count(req[t].log, "drain") = 1

-----------------------------------------------------------------------------
(* Properties of the locks of the pool and of its providers (SpecClients) *)

\* The clients that are in the middle of a fetch on provider p.
FetchingOn(p) == {c \in Clients : cl[c].st = "t_fetch" /\ cl[c].session = p}

\* C33: providers do not block one another: a token request that waits for
\* the lock of its provider can take it as soon as nobody fetches on that same
\* provider, whatever the other providers do, and a fetch that began can
\* complete.
C33_ProvidersIndependent ==
    \A c \in Clients :
        /\ (cl[c].st = "t_lock" /\ FetchingOn(cl[c].session) = {})
              => ENABLED ClientTokenLock(c)
        /\ cl[c].st = "t_fetch" => ENABLED ClientTokenFetched(c, TRUE)

\* C33: two providers are in the middle of a fetch at the same time.
C33_Witness ==
    \E c, d \in Clients :
        /\ cl[c].st = "t_fetch" /\ cl[d].st = "t_fetch"
        /\ cl[c].session # cl[d].session
        /\ prov[cl[c].session].lock = c /\ prov[cl[d].session].lock = d

\* The clients that are inside `with _provider_pool_lock:`.
InLookup == {c \in Clients : cl[c].st \in {"pool_get", "pool_put"}}

\* C34: the pool lock is not held during a fetch: its holder is inside the
\* lookup, a client that waits for a token or fetches one does not hold it, and
\* a lookup that waits for the pool lock can take it as soon as no other lookup
\* is under way, whatever fetches are in progress.
C34_NoFetchUnderPoolLock ==
    \A c \in Clients :
        /\ provider_pool_lock = c => c \in InLookup
        /\ cl[c].st \in {"t_check", "t_lock", "t_fetch"} => provider_pool_lock # c
        /\ (cl[c].st = "pool_wait" /\ InLookup = {}) => ENABLED PoolLock(c)

\* C34: a client holds the pool lock for its lookup while another client is in
\* the middle of a fetch.
C34_Witness ==
    \E c, d \in Clients :
        /\ cl[c].st = "t_fetch"
        /\ provider_pool_lock = d /\ d # c /\ d \in InLookup

-----------------------------------------------------------------------------
(* Properties of concurrent saves to the file cache (SpecStore) *)

\* Process p ends a save that ran concurrently with a save of another key by
\* another process: the other process wrote between p's read and p's write, or
\* has read and not yet written.
ConcurrentSave(p) ==
    /\ Ends(p, "save") /\ cacheBackend = "file"
    /\ \E q \in Procs \ {p} :
          /\ cop[q].name = "save" /\ cop[q].key # cop[p].key
          /\ \/ cop[q].st = "read"
             \/ cop[q].st = "done" /\ cop[p].raced

\* The snapshot process p read, with p's own key set.
SnapshotPlusKey(p) ==
    [cop[p].data EXCEPT !.pairs = dict_set(@, cop[p].key, TokenValue(cop[p].tok))]

\* C35: when two processes save different keys concurrently, each save returns
\* without error, and a save that wrote the file leaves the snapshot it read
\* plus its own key as the document, so the last writer's entry is present.
C35_LastWriterWins ==
    [][\A p \in Procs :
          ConcurrentSave(p) =>
              /\ ~cop'[p].raised
              /\ cop'[p].wres \in {"ok", "torn"} =>
                    /\ fileDoc' = json_dumps(SnapshotPlusKey(p))
                    /\ RawEntry(cop[p].key)' = TokenValue(cop[p].tok)]_vars

\* C35, where it holds: the writes that went through whole.
C35_LastWriterWinsWhole ==
    [][\A p \in Procs :
          ConcurrentSave(p) =>
              /\ ~cop'[p].raised
              /\ cop'[p].wres = "ok" =>
                    /\ fileDoc' = json_dumps(SnapshotPlusKey(p))
                    /\ RawEntry(cop[p].key)' = TokenValue(cop[p].tok)]_vars

\* C35: the second of two concurrent saves has written, from a snapshot that
\* the first one's write had made old; the first one's entry is gone.
C35_Witness ==
    \E p, q \in Procs :
        /\ p # q /\ cacheBackend = "file"
        /\ cop[p].name = "save" /\ cop[p].st = "done" /\ cop[p].raced
        /\ cop[q].name = "save" /\ cop[q].st = "done" /\ cop[q].key # cop[p].key
        /\ cop[p].wres = "ok" /\ cop[q].wres = "ok"
        /\ RawEntry(cop[p].key) = TokenValue(cop[p].tok)
        /\ RawEntry(cop[q].key) = NoValue

-----------------------------------------------------------------------------
(* Properties of BaseApiClient.session (SpecSession) *)

\* The readers that have their answer.
Answered == {r \in Readers : sx.pc[r] \in {"done", "raised"}}

\* C36 as stated: nothing exists after construction, and once a reader has its
\* answer exactly one create_session call and one provider lookup were made and
\* every reader got the same session.
C36_SessionOnce ==
    /\ (sx.st = "new" /\ \A r \in Readers : sx.reads[r] = 0) =>
          (sx.session = NoSession /\ sx.lookups = 0 /\ sx.creates = 0)
    /\ Answered # {} =>
          /\ sx.creates = 1 /\ sx.lookups = 1
          /\ \A r \in Answered : sx.pc[r] = "done" /\ sx.got[r] = sx.session

\* C36 amended: nothing exists after construction; at most one create_session
\* call succeeds per client, however many threads read the property at once,
\* and every reader that gets a session gets that one, on this and on every
\* later access; the provider is looked up once for the session that is built,
\* not at all when the client was given a token_provider, and once more for
\* every read in which the lookup raised, which stores no session and lets the
\* error through to that reader.
C36_SessionOnceBuilt ==
    /\ (sx.st = "new" /\ \A r \in Readers : sx.reads[r] = 0) =>
          (sx.session = NoSession /\ sx.lookups = 0 /\ sx.creates = 0)
    /\ sx.creates <= 1
    /\ sx.session = sx.creates
    /\ sx.lookups = (IF sx.explicit THEN 0 ELSE sx.creates) + sx.fails
    /\ \A r \in Readers :
          /\ sx.pc[r] = "done" => (sx.got[r] = sx.session /\ sx.creates = 1)
          /\ sx.pc[r] = "raised" => sx.got[r] = NoSession

\* C36 witness: three threads read the property of a new client at once; one
\* built the session and the two others, which had found none outside the
\* lock, got it under the lock.
C36_Witness ==
    /\ sx.creates = 1 /\ sx.lookups = 1 /\ sx.fails = 0
    /\ \A r \in Readers : sx.pc[r] = "done" /\ sx.reads[r] = 1 /\ sx.got[r] = 1

-----------------------------------------------------------------------------
(* Properties of the retry loop of BaseAsyncApiClient (SpecAsync) *)

\* C37: a request is transmitted at most 4 times; every transmission that was
\* followed by another one was answered with 502, 503 or 504; the loop has
\* ended exactly when the last answer has another status or was the fourth
\* one; and the last response went through sunset and error handling.
C37_BoundedRetry ==
    /\ Len(ax.sent) <= RetryAttempts + 1
    /\ \A i \in 1..(Len(ax.sent) - 1) : ax.sent[i] \in {502, 503, 504}
    /\ Len(ax.sent) = ax.sleeps + (IF ax.st \in {"returned", "done"} THEN 1 ELSE 0)
    /\ ax.st \in {"returned", "done"} =>
          \/ ax.sent[Len(ax.sent)] \notin {502, 503, 504}
          \/ Len(ax.sent) = RetryAttempts + 1
    /\ ax.st = "calling" => Len(ax.sent) <= RetryAttempts
    /\ ax.st = "done" =>
          /\ ax.sunset
          /\ ax.raised # "" <=> ax.sent[Len(ax.sent)] >= 400

\* C37 witness: a request was answered four times with a retried status and
\* its fourth response was handed to error handling.
C37_Witness ==
    /\ ax.st = "done"
    /\ Len(ax.sent) = 4 /\ ax.sent[4] = 503
    /\ ax.sunset /\ ax.raised = "HTTPStatusError"

-----------------------------------------------------------------------------
(* Properties of lookups without credentials (SpecPool) *)

\* Client c, constructed with credentials that do not resolve, makes its
\* provider lookup in this step.
UnresolvedLookup(c) ==
    /\ cl[c].st = "new" /\ ~cl[c].explicit /\ cl[c].auth = Unresolved
    /\ cl'[c].st \notin {"new", "dropped"}

\* The provider client c holds, in its session or on its way to it.
Holds(c) == IF cl[c].session # None THEN cl[c].session ELSE cl[c].local

\* The clients that made the lookup with credentials that do not resolve.
Uncredentialed ==
    {c \in Clients : cl[c].auth = Unresolved /\ ~cl[c].explicit /\ Holds(c) # None}

\* C38: a lookup with credentials that do not resolve registers nothing: the
\* pool and its lock are as before, the client gets a provider that was
\* constructed by this lookup and that is under no key of the pool, and no two
\* such clients hold the same provider.
C38_UnresolvedNotPooled ==
    [][/\ \A c \in Clients :
             UnresolvedLookup(c) =>
                 /\ provider_pool' = provider_pool
                 /\ provider_pool_lock' = provider_pool_lock
                 /\ cl'[c].st = "got"
                 /\ ~prov[cl'[c].local].made /\ prov'[cl'[c].local].made
                 /\ prov'[cl'[c].local].key = NoKey
       /\ \A c \in Uncredentialed' :
             /\ \A k \in Keys : provider_pool'[k] # Holds(c)'
             /\ \A d \in Uncredentialed' \ {c} : Holds(d)' # Holds(c)']_vars

\* C38 witness: two clients without resolvable credentials have their
\* sessions, on two providers, and the pool has an entry for neither.
C38_Witness ==
    \E c, d \in Clients :
        /\ c # d
        /\ cl[c].auth = Unresolved /\ cl[d].auth = Unresolved
        /\ cl[c].st = "ready" /\ cl[d].st = "ready"
        /\ cl[c].session # cl[d].session
        /\ \A k \in Keys : provider_pool[k] \notin {cl[c].session, cl[d].session}

-----------------------------------------------------------------------------
(* Properties of the cache keys (SpecKeys) *)

\* The characters of a string.
CharsOf(str) == {str[n] : n \in DOMAIN str}

\* C39: entries of different identities never alias: a load returns what was
\* last saved for its own identity (nothing after a clear, or with no save),
\* whatever was saved or cleared for other identities, and the keys of the
\* identities that were used are pairwise distinct.
C39_NoAliasing ==
    /\ \A i, j \in ky.used : i # j => make_key(i[1], i[2]) # make_key(j[1], j[2])
    /\ ky.st = "loaded" => ky.res = ky.want[ky.id]

\* C39, where it holds: as long as no client id that contains ":" is used.
C39_NoAliasingPlainIds ==
    (\A i \in ky.used : ":" \notin CharsOf(i[2])) =>
        /\ \A i, j \in ky.used :
              i # j => make_key(i[1], i[2]) # make_key(j[1], j[2])
        /\ (ky.st = "loaded" /\ ":" \notin CharsOf(ky.id[2])) =>
              ky.res = ky.want[ky.id]

\* C39: a load for one identity returned the token that was saved for another
\* identity.
C39_Witness ==
    /\ ky.st = "loaded"
    /\ ky.res # NoEntry
    /\ ky.want[ky.id] = NoEntry
    /\ ky.id \notin ky.used

====
